---- MODULE Spec2Model ----
(***************************************************************************)
(* The publish pipeline of PushOperation (src/src/actions/PushOperation.ts)*)
(* as a state machine: a stack of PushOperation activations (perform()     *)
(* calls itself for local dependencies), the process-wide mapping cache    *)
(* and the registry's reservations.                                        *)
(*                                                                         *)
(* Strings that the code builds or parses are sequences of tokens, so that *)
(* formatting and parsing are real conversions:                            *)
(*   "h/b"                 is <<"h", "/", "b">>                            *)
(*   "h/b:local"           is <<"h", "/", "b", ":", "local">>              *)
(*   "kapeta://h/b:1.0.2"  is <<"kapeta://", "h", "/", "b", ":", "1.0.2">> *)
(*   "v1.0.2-h/b"          is <<"v", "1.0.2", "-", "h", "/", "b">>         *)
(***************************************************************************)
EXTENDS Naturals, Sequences, FiniteSets, TLC

VARIABLES
    options,      \* PushCommandOptions of the top-level push
    world,        \* the file system and version control the run works on
    stack,        \* the live PushOperation activations, root first
    cache,        \* LOCAL_VERSION_MAPPING_CACHE
    published,    \* registry: number of the latest committed version per asset
    reservations, \* registry: every reservation made, by id
    nextOp,       \* number of PushOperations constructed so far
    nestedStarts, \* per dependency name, the nested publishes started for it
    call          \* a call of one of the utility functions, outside of a push

vars == <<options, world, stack, cache, published, reservations, nextOp, nestedStarts, call>>

\* Deepest nesting of PushOperations the model follows (the code has no limit).
MaxDepth == 3

----------------------------------------------------------------------------
\* Strings

NoString == <<>>

AssetName(handle, name) == <<handle, "/", name>>

LocalDependency(assetName) == assetName \o <<":", "local">>

VersionString(n) == "1.0." \o ToString(n)

\* parseKapetaUri of @kapeta/nodejs-utils as PushOperation uses it: the
\* protocol is optional, then handle/name and an optional :version.
parseKapetaUri(uri) ==
    LET rest == IF Len(uri) > 0 /\ uri[1] = "kapeta://" THEN Tail(uri) ELSE uri
    IN  [handle  |-> IF Len(rest) >= 1 THEN rest[1] ELSE "",
         name    |-> IF Len(rest) >= 3 /\ rest[2] = "/" THEN rest[3] ELSE "",
         version |-> IF Len(rest) >= 5 /\ rest[4] = ":" THEN rest[5] ELSE ""]

\* `kapeta://${content.metadata.name}:${version}`
FormatReference(assetName, version) == <<"kapeta://">> \o assetName \o <<":", version>>

Range(s) == {s[i] : i \in 1..Len(s)}

----------------------------------------------------------------------------
\* calculateVersionIncrement of version-utils
\*
\* A commit message is a sequence of lines and a line a sequence of tokens:
\*   "feat!: a"                    is << <<"feat", "!", ": ", "a">> >>
\*   "fix: a\nBREAKING CHANGE: x"  is << <<"fix", ": ", "a">>,
\*                                       <<"BREAKING CHANGE", ": ", "x">> >>
\*   ""                            is << >>

Punctuation == {"(", ")", "!", ": ", " "}

\* \w+
IsWord(token) == token \notin Punctuation

toLowerCase(token) ==
    CASE token = "Feat" -> "feat"
      [] token = "FIX" -> "fix"
      [] token = "Not" -> "not"
      [] token = "BREAKING CHANGE" -> "breaking change"
      [] token = "BREAKING-CHANGE" -> "breaking-change"
      [] OTHER -> token

toUpperCase(token) ==
    CASE token = "breaking change" -> "BREAKING CHANGE"
      [] token = "breaking-change" -> "BREAKING-CHANGE"
      [] token = "feat" -> "FEAT"
      [] token = "Feat" -> "FEAT"
      [] token = "fix" -> "FIX"
      [] token = "chore" -> "CHORE"
      [] OTHER -> token

\* CommitParserOptions.noteKeywords
noteKeywords == {"BREAKING CHANGE", "BREAKING-CHANGE"}

\* headerPattern /^(\w*)(?:\((.*)\))?!?: (.*)$/ on the tokens of a header;
\* bang tells whether breakingHeaderPattern matches too.
MatchHeader(header) ==
    LET afterType == IF Len(header) >= 1 /\ IsWord(header[1]) THEN 2 ELSE 1
        hasScope == /\ Len(header) >= afterType + 2
                    /\ header[afterType] = "(" /\ header[afterType + 2] = ")"
        afterScope == IF hasScope THEN afterType + 3 ELSE afterType
        bang == Len(header) >= afterScope /\ header[afterScope] = "!"
        afterBang == IF bang THEN afterScope + 1 ELSE afterScope
    IN  [matches |-> /\ Len(header) >= afterBang /\ header[afterBang] = ": "
                     /\ Len(header) <= afterBang + 1,
         type    |-> IF afterType = 2 THEN header[1] ELSE "",
         bang    |-> bang]

\* A line that the parser takes for a note: a keyword, in any case, then ':'.
IsNote(line) == Len(line) >= 2 /\ toUpperCase(line[1]) \in noteKeywords /\ line[2] = ": "

\* CommitParser.sync(log, CommitParserOptions) inside the try/catch of the
\* map callback: the parser throws on an empty message and the callback then
\* yields null (parsed = FALSE). type is "" where the parser has null.
ParseCommit(log) ==
    IF log = <<>> THEN [parsed |-> FALSE, type |-> "", notes |-> <<>>]
    ELSE LET match == MatchHeader(Head(log))
             noteLines == SelectSeq(Tail(log), IsNote)
             notes == [i \in 1..Len(noteLines) |-> [title |-> noteLines[i][1]]]
         IN  [parsed |-> TRUE,
              type   |-> IF match.matches THEN match.type ELSE "",
              notes  |-> IF notes = <<>> /\ match.matches /\ match.bang
                         THEN <<[title |-> "BREAKING CHANGE"]>>
                         ELSE notes]

\* .filter((commit) => commit.type)
HasType(commit) == commit.type # ""

\* The for loop over the commits, from the increment reached so far.
RECURSIVE IncrementOf(_, _)
IncrementOf(commits, increment) ==
    IF commits = <<>> THEN increment
    ELSE LET commit == Head(commits)
             type == toLowerCase(commit.type)
             counted == IF type = "feat" /\ increment < 2 THEN 2
                        ELSE IF type = "fix" /\ increment < 1 THEN 1
                        ELSE increment
             isBreaking == /\ Len(commit.notes) > 0
                           /\ \E i \in 1..Len(commit.notes) :
                                 toUpperCase(commit.notes[i].title) \in noteKeywords
         IN  IF isBreaking THEN 3 ELSE IncrementOf(Tail(commits), counted)

\* calculateVersionIncrement(gitLogs); missing stands for a null or undefined
\* argument. Reading commit.type of a null commit in the filter is a TypeError.
calculateVersionIncrement(missing, gitLogs) ==
    IF missing \/ Len(gitLogs) = 0 THEN "NONE"
    ELSE LET parsed == [i \in 1..Len(gitLogs) |-> ParseCommit(gitLogs[i])]
         IN  IF \E i \in 1..Len(parsed) : ~parsed[i].parsed THEN "TypeError"
             ELSE LET increment == IncrementOf(SelectSeq(parsed, HasType), 0)
                  IN  CASE increment = 3 -> "MAJOR"
                        [] increment = 2 -> "MINOR"
                        [] OTHER -> "PATCH"

Subject == <<": ", "a">>

----------------------------------------------------------------------------
\* The file system: directories with a definition file, and the registry's
\* view of the assets in them.

NameA == AssetName("h", "a")
NameA2 == AssetName("h", "a2")
NameB == AssetName("h", "b")
NameB2 == AssetName("h", "b2")
NameC == AssetName("h", "c")

Names == {NameA, NameA2, NameB, NameB2, NameC}

Dirs == {"dA", "dB", "dC"}

RootDir == "dA"

CoreKind == <<"core", "/", "block-type">>
CustomKind == <<"h", "/", "k", ":", "1.0.0">>
ChainedKind == <<"h", "/", "k2", ":", "1.0.0">>
UnknownKind == <<"h", "/", "k3", ":", "1.0.0">>
KindWithoutVersion == <<"h", "/", "k">>

\* The registry's assets that are kinds: asset.content.kind of the version
\* that getVersion answers, NoString when the registry has no such version.
KindOfKind(kind) ==
    CASE kind = CustomKind -> CoreKind
      [] kind = ChainedKind -> CustomKind
      [] OTHER -> NoString

\* One YAML document of a definition file; deps is what the registry's
\* resolveDependencies answers for it.
Document(name, deps) ==
    [hasMetadata |-> TRUE, name |-> name, kind |-> CoreKind, deps |-> deps]

NoMetadata == [hasMetadata |-> FALSE, name |-> NoString, kind |-> CoreKind, deps |-> <<>>]

NoName == [hasMetadata |-> TRUE, name |-> NoString, kind |-> CoreKind, deps |-> <<>>]

FileB == <<Document(NameB, <<>>)>>

\* fileState: "file", "missing" or "directory" (what FS.existsSync/statSync see);
\* children: the directories below a directory that hold a kapeta.yml;
\* linked: the local asset repository (handle/name -> directory).
Layout(docsA, docsB, docsC, childrenOfA, linked) ==
    LET files == [d \in Dirs |-> CASE d = "dA" -> docsA [] d = "dB" -> docsB [] OTHER -> docsC]
    IN  [files     |-> files,
         fileState |-> [d \in Dirs |-> IF files[d] = <<>> THEN "missing" ELSE "file"],
         children  |-> [d \in Dirs |-> IF d = "dA" THEN childrenOfA ELSE {}],
         linked    |-> linked]

NoLinks == [n \in Names |-> "none"]

Linked(name, dir) == [NoLinks EXCEPT ![name] = dir]

WithKind(doc, kind) == [doc EXCEPT !.kind = kind]

DependsOn(name) == <<LocalDependency(name)>>

\* A and B depend on each other: B is found below A, A is linked.
Cycle ==
    Layout(<<Document(NameA, DependsOn(NameB))>>, <<Document(NameB, DependsOn(NameA))>>,
           <<>>, {"dB"}, Linked(NameA, "dA"))

Layouts ==
    { \* A alone
      Layout(<<Document(NameA, <<>>)>>, <<>>, <<>>, {}, NoLinks),
      \* two assets in one file, the kind of the first a published asset
      Layout(<<WithKind(Document(NameA, <<>>), CustomKind), Document(NameA2, <<>>)>>,
             <<>>, <<>>, {}, NoLinks),
      \* A depends on local B, found below A, and on a published C
      Layout(<<Document(NameA, <<LocalDependency(NameB), NameC \o <<":", "1.0.0">>>>)>>,
             FileB, <<>>, {"dB"}, NoLinks),
      \* A names local B twice
      Layout(<<Document(NameA, <<LocalDependency(NameB), LocalDependency(NameB)>>)>>,
             FileB, <<>>, {"dB"}, NoLinks),
      \* two assets in one file, both depending on local B
      Layout(<<Document(NameA, DependsOn(NameB)), Document(NameA2, DependsOn(NameB))>>,
             FileB, <<>>, {"dB"}, NoLinks),
      \* A depends on local B and local C, C depends on local B (linked)
      Layout(<<Document(NameA, <<LocalDependency(NameB), LocalDependency(NameC)>>)>>,
             FileB, <<Document(NameC, DependsOn(NameB))>>, {"dB", "dC"}, Linked(NameB, "dB")),
      \* A depends on local B, whose file holds B and B2
      Layout(<<Document(NameA, DependsOn(NameB))>>,
             <<Document(NameB, <<>>), Document(NameB2, <<>>)>>, <<>>, {"dB"}, NoLinks),
      \* A depends on local B, linked, whose file lacks a name
      Layout(<<Document(NameA, DependsOn(NameB))>>,
             <<Document(NameB, <<>>), NoName>>, <<>>, {}, Linked(NameB, "dB")),
      Cycle,
      \* A depends on local B, which is nowhere on disk
      Layout(<<Document(NameA, DependsOn(NameB))>>, <<>>, <<>>, {}, NoLinks),
      \* a document without metadata.name, after one of a published kind
      Layout(<<WithKind(Document(NameA, <<>>), CustomKind), NoName>>, <<>>, <<>>, {}, NoLinks),
      \* a document without metadata
      Layout(<<NoMetadata, Document(NameA, DependsOn(NameB))>>, FileB, <<>>, {"dB"}, NoLinks),
      \* the kind of A is an asset whose own kind is a published asset; a kind
      \* the registry does not have; a kind without a version
      Layout(<<WithKind(Document(NameA, <<>>), ChainedKind)>>, <<>>, <<>>, {}, NoLinks),
      Layout(<<WithKind(Document(NameA, <<>>), UnknownKind)>>, <<>>, <<>>, {}, NoLinks),
      Layout(<<WithKind(Document(NameA, <<>>), KindWithoutVersion)>>, <<>>, <<>>, {}, NoLinks),
      \* no definition file, and a directory in its place
      Layout(<<>>, <<>>, <<>>, {}, NoLinks),
      [Layout(<<Document(NameA, <<>>)>>, <<>>, <<>>, {}, NoLinks)
          EXCEPT !.fileState["dA"] = "directory"]
    }

\* What the registry and version control know of an asset: its latest
\* version ("none" when it was never published), the commit on record for
\* that version ("null" when there is none) and the messages of the commits
\* since.
NeverPublished == [version |-> "none", commit |-> "null", commits |-> <<>>]

WithoutCommit == [version |-> VersionString(1), commit |-> "null", commits |-> <<>>]

Since(commits) == [version |-> VersionString(1), commit |-> "c0", commits |-> commits]

\* The first asset of every definition file has one history, the second another.
History(first, second) == [n \in Names |-> IF n \in {NameA2, NameB2} THEN second ELSE first]

Fix == <<<<"fix">> \o Subject>>
Feat == <<<<"feat">> \o Subject>>
Chore == <<<<"chore">> \o Subject>>
Breaking == <<<<"feat", "!">> \o Subject>>
BreakingNote == <<<<"fix">> \o Subject, <<"BREAKING CHANGE", ": ", "x">>>>
EmptyMessage == <<>>

Histories ==
    { History(Since(<<Fix>>), Since(<<Chore, Feat>>)),
      History(Since(<<Feat, Fix>>), Since(<<Fix>>)),
      History(Since(<<Chore, Breaking>>), Since(<<EmptyMessage>>)),
      History(NeverPublished, Since(<<Fix>>)),
      History(WithoutCommit, Since(<<>>)),
      History(Since(<<Feat>>), Since(<<BreakingNote>>)),
      History(Since(<<Fix>>), Since(<<Fix, EmptyMessage>>)) }

NoHistory == History(WithoutCommit, WithoutCommit)

\* The process runs in the directory of the root asset.
WorkingDirectory == RootDir

\* What is at scripts/build.sh and scripts/test.sh of each directory:
\* "missing", "file" or "directory".
NoScript == [d \in Dirs |-> "missing"]

ScriptIn(dir, state) == [NoScript EXCEPT ![dir] = state]

NoScripts == [build |-> NoScript, test |-> NoScript]

Scripts ==
    { NoScripts,
      \* the root asset has both scripts, its dependencies have none
      [build |-> ScriptIn("dA", "file"), test |-> ScriptIn("dA", "file")],
      \* a dependency has both scripts, the root asset has none
      [build |-> ScriptIn("dB", "file"), test |-> ScriptIn("dB", "file")],
      \* both have a build script; a directory where the root's test script would be
      [build |-> [ScriptIn("dA", "file") EXCEPT !["dB"] = "file"],
       test |-> ScriptIn("dA", "directory")] }

Worlds ==
    {[layout |-> l, vcs |-> FALSE, history |-> NoHistory, scripts |-> s] :
        l \in Layouts, s \in Scripts}
        \cup {[layout |-> l, vcs |-> TRUE, history |-> h, scripts |-> NoScripts] :
                  l \in Layouts, h \in Histories}

Options == [dryRun : BOOLEAN, skipTests : BOOLEAN, ignoreWorkingDirectory : BOOLEAN]

LocalNames == {LocalDependency(n) : n \in Names}

----------------------------------------------------------------------------
\* RegistryService

\* Config.data.registry.url
RegistryUrls == {"https://registry.kapeta.com", "http://localhost:5940"}

RegistryUrl == "https://registry.kapeta.com"

\* The methods of RegistryService, all of which go through _request.
RegistryMethods ==
    {"resolveDependencies", "updateDependencies", "reserveVersions", "commitReservation",
     "abortReservation", "getVersion", "getLatestVersionBefore", "getLatestVersion"}

\* What request() does: it resolves with a body (statusCode 200), or rejects
\* with an error e, of which _request reads e.message, e.statusCode (0 when
\* there is none) and e.response.body.message (bodyMessage, NoString when
\* there is none). The message of a status code error holds the body.
Ok == [statusCode |-> 200, message |-> NoString, bodyMessage |-> NoString]

ConnectionRefused ==
    [statusCode |-> 0, message |-> <<"connect", " ", "ECONNREFUSED", " ", "127.0.0.1">>,
     bodyMessage |-> NoString]

TimedOut == [statusCode |-> 0, message |-> <<"ETIMEDOUT">>, bodyMessage |-> NoString]

NotFound ==
    [statusCode |-> 404, message |-> <<"404", " - ", "Not", " ", "found">>,
     bodyMessage |-> <<"Not", " ", "found">>]

NotFoundWithoutBody == [statusCode |-> 404, message |-> <<"404", " - ">>, bodyMessage |-> NoString]

Conflict ==
    [statusCode |-> 409, message |-> <<"409", " - ", "Reservation", " ", "expired">>,
     bodyMessage |-> <<"Reservation", " ", "expired">>]

ServerError == [statusCode |-> 500, message |-> <<"500", " - ">>, bodyMessage |-> NoString]

BadGateway ==
    [statusCode |-> 502, message |-> <<"502", " - ", "upstream", " ", "ECONNREFUSED">>,
     bodyMessage |-> <<"upstream", " ", "ECONNREFUSED">>]

Responses ==
    {Ok, ConnectionRefused, TimedOut, NotFound, NotFoundWithoutBody, Conflict, ServerError,
     BadGateway}

\* `Failed to reach Kapeta registry on ${this.baseUrl}. Please check ...`
FailedToReach(baseUrl) ==
    <<"Failed to reach Kapeta registry on ", baseUrl,
      ". Please check your settings and try again.">>

Returns(value) == [thrown |-> FALSE, value |-> value, error |-> NoString]

Throws(error) == [thrown |-> TRUE, value |-> "none", error |-> error]

\* _request(): the body of the answer, or what the catch block makes of the
\* error.
Request(baseUrl, response) ==
    IF response.statusCode = 200 THEN Returns("body")
    ELSE IF "ECONNREFUSED" \in Range(response.message) THEN Throws(FailedToReach(baseUrl))
    ELSE IF response.statusCode > 0 /\ response.statusCode = 404 THEN Returns("null")
    ELSE IF response.statusCode > 0 /\ response.bodyMessage # NoString
    THEN Throws(response.bodyMessage)
    ELSE Throws(response.message)

\* What the method of PushOperation that wraps the call makes of the outcome:
\* reserveVersions() throws when it got nothing, the others hand it on.
Wrapped(method, outcome) ==
    IF method = "reserveVersions" /\ ~outcome.thrown /\ outcome.value = "null"
    THEN Throws(<<"Failed to reserve version - no reservation returned from registry. ">>)
    ELSE outcome

----------------------------------------------------------------------------
\* A PushOperation activation

NoCalls ==
    [registry |-> 0, build |-> 0, test |-> 0, checksum |-> 0, reserve |-> 0,
     push |-> 0, commit |-> 0, abort |-> 0, tag |-> 0, pushTags |-> 0,
     isClean |-> 0, isUpToDate |-> 0]

\* The ReservationRequest of an operation that has sent none.
NoRequest ==
    [assets |-> <<>>, mainBranch |-> TRUE, branchName |-> "master", commit |-> "null",
     checksum |-> "null", minimumIncrement |-> "NONE"]

\* The constructor, and the locals of perform() and _checkDependenciesFor().
\* id, parent, forDependency, nested, calls, steps, updates, unresolved,
\* request, caught, shortCircuit and taggingError record what the operation
\* did; the code does not hold them.
NewOperation(id, parent, forDependency, dir, opts) ==
    [id |-> id, parent |-> parent, forDependency |-> forDependency,
     dir |-> dir, options |-> opts, pc |-> "vcsHandler",
     vcs |-> FALSE, assetDefinitions |-> <<>>, assetKind |-> NoString, baseKind |-> NoString,
     commit |-> "null", minimumIncrement |-> "NONE",
     localAssets |-> [n \in Names |-> "none"],
     assetIndex |-> 1, dependencies |-> <<>>, dependencyIndex |-> 1,
     dependencyChanges |-> <<>>, newAssets |-> <<>>,
     main |-> TRUE, branch |-> "master", checksum |-> "null",
     reservation |-> 0, versions |-> <<>>, existingVersions |-> <<>>,
     vcsTags |-> <<>>, versionIndex |-> 1, assetVersions |-> <<>>,
     references |-> <<>>, error |-> "none",
     calls |-> NoCalls, nested |-> <<>>, request |-> NoRequest, caught |-> "none", shortCircuit |-> FALSE,
     taggingError |-> "none", steps |-> <<>>, updates |-> <<>>, unresolved |-> <<>>,
     checked |-> <<>>, isClean |-> "unknown", isUpToDate |-> "unknown",
     build |-> "none", test |-> "none", testError |-> "none",
     cacheBefore |-> [n \in LocalNames |-> NoString]]

\* No utility function is being called.
NoCall == [function |-> "none"]

Top == stack[Len(stack)]

At(pc) == Len(stack) > 0 /\ Top.pc = pc

Continue(f, e) == [f EXCEPT !.error = e]

Throw(f, e) == [f EXCEPT !.pc = "thrown", !.error = e]

Goto(f, pc) == [f EXCEPT !.pc = pc]

\* The dependency the loop of _checkDependenciesFor is at got no working copy,
\* or its nested perform() threw.
Unresolved(f, why) ==
    [f EXCEPT !.unresolved = Append(@, [asset |-> f.assetIndex,
                                        dependency |-> f.dependencies[f.dependencyIndex],
                                        why |-> why])]

\* A step of perform() from checkDependencies() on has ended, well or not.
Did(f, step, ok) == [f EXCEPT !.steps = Append(@, [step |-> step, ok |-> ok])]

SetTop(f) == stack' = [stack EXCEPT ![Len(stack)] = f]

Init ==
    /\ options \in Options
    /\ world \in Worlds
    /\ stack = <<NewOperation(1, 0, NoString, RootDir, options)>>
    /\ cache = [n \in LocalNames |-> NoString]
    /\ published = [n \in Names |-> IF world.history[n].version = "none" THEN 0 ELSE 1]
    /\ reservations = <<>>
    /\ nextOp = 1
    /\ nestedStarts = [n \in LocalNames |-> 0]
    /\ call = NoCall

----------------------------------------------------------------------------
\* perform(), step by step

\* vcsHandler(): getVCSHandler probes the directory.
VcsHandler ==
    /\ At("vcsHandler")
    /\ SetTop([Top EXCEPT !.vcs = world.vcs, !.pc = "checkExists"])
    /\ UNCHANGED <<call, options, world, cache, published, reservations, nextOp, nestedStarts>>

HasMetadata(doc) == doc.hasMetadata

\* if (!assetDefinition.metadata) ... if (!assetDefinition.metadata.name) ...
ValidDocument(doc) == doc.hasMetadata /\ doc.name # NoString

\* The error of the first document the forEach of checkExists rejects.
ValidationError(docs) ==
    LET bad == {i \in 1..Len(docs) : ~ValidDocument(docs[i])}
        first == CHOOSE i \in bad : \A k \in bad : i <= k
    IN  IF bad = {} THEN "none"
        ELSE IF ~docs[first].hasMetadata THEN "MissingMetadata" ELSE "MissingName"

IsCoreKind(kind) == Len(kind) >= 2 /\ kind[1] = "core" /\ kind[2] = "/"

\* uri.fullName
FullName(uri) == IF uri.handle # "" /\ uri.name # "" THEN AssetName(uri.handle, uri.name) ELSE NoString

\* resolveBaseKind(): a core kind is its own base kind; else the kind is
\* parsed and its asset fetched with getVersion, whose content.kind is the
\* answer. A 404 leaves null, and reading content of null is a TypeError.
resolveBaseKind(assetKind, response) ==
    IF assetKind = NoString \/ IsCoreKind(assetKind) THEN Returns(assetKind)
    ELSE LET uri == parseKapetaUri(assetKind)
         IN  IF FullName(uri) = NoString \/ uri.version = ""
             THEN Throws(<<"Invalid asset kind: ">> \o assetKind)
             ELSE LET asset == Request(RegistryUrl,
                                       IF response = Ok /\ KindOfKind(assetKind) = NoString
                                       THEN NotFound ELSE response)
                  IN  IF asset.thrown THEN asset
                      ELSE IF asset.value = "null" THEN Throws(<<"TypeError">>)
                      ELSE Returns(KindOfKind(assetKind))

\* The answers of the registry to getVersion that the model follows.
LookupResponses == {Ok, ServerError}

\* checkExists(), with resolveBaseKind() at its end.
CheckExists ==
    /\ At("checkExists")
    /\ LET f == Top
           state == world.layout.fileState[f.dir]
           docs == world.layout.files[f.dir]
       IN  IF state = "missing" THEN SetTop(Throw(f, "NotFound"))
           ELSE IF state = "directory" THEN SetTop(Throw(f, "NotAFile"))
           ELSE IF ValidationError(docs) # "none" THEN SetTop(Throw(f, ValidationError(docs)))
           ELSE LET g == [f EXCEPT !.assetDefinitions = docs, !.assetKind = docs[1].kind]
                IN  IF IsCoreKind(g.assetKind)
                    THEN SetTop([g EXCEPT !.baseKind = resolveBaseKind(g.assetKind, Ok).value,
                                          !.pc = "checkWorkingDirectory"])
                    ELSE \E response \in LookupResponses :
                           LET baseKind == resolveBaseKind(g.assetKind, response)
                               h == IF FullName(parseKapetaUri(g.assetKind)) = NoString
                                       \/ parseKapetaUri(g.assetKind).version = ""
                                    THEN g ELSE [g EXCEPT !.calls.registry = @ + 1]
                           IN  IF baseKind.thrown
                               THEN SetTop(Throw(h, IF baseKind.error = <<"TypeError">>
                                                    THEN "TypeError"
                                                    ELSE IF baseKind.error[1] = "Invalid asset kind: "
                                                    THEN "InvalidKind" ELSE "RegistryError"))
                               ELSE SetTop([h EXCEPT !.baseKind = baseKind.value,
                                                     !.pc = "checkWorkingDirectory"])
    /\ UNCHANGED <<call, options, world, cache, published, reservations, nextOp, nestedStarts>>

\* What a check of the working directory by the handler can end in.
CheckOutcomes == {"yes", "no", "error"}

\* The messages of the errors that checkWorkingDirectory() throws itself.
Message(error) ==
    IF error = "NotClean"
    THEN <<"Working directory is not clean.", "Make sure everything is committed or use",
           "--ignore-working-directory", "to ignore">>
    ELSE IF error = "NotUpToDate"
    THEN <<"Working directory is not up to date with remote.",
           "Pull the latest changes or use", "--ignore-working-directory", "to continue.">>
    ELSE <<error>>

ChecksAlways(f) == f.vcs

\* if (handler) { if (!this.options.ignoreWorkingDirectory) {
ChecksWorkingDirectory(f) == f.vcs /\ ~f.options.ignoreWorkingDirectory

\* checkWorkingDirectory(): clean first, then up to date.
CheckWorkingDirectory ==
    /\ At("checkWorkingDirectory")
    /\ LET f == Top
       IN  IF ChecksWorkingDirectory(f)
           THEN \E clean \in CheckOutcomes, upToDate \in CheckOutcomes :
                  LET g == [f EXCEPT !.calls.isClean = @ + 1, !.isClean = clean]
                      h == [g EXCEPT !.calls.isUpToDate = @ + 1, !.isUpToDate = upToDate]
                  IN  IF clean = "error" THEN SetTop(Throw(g, "VcsError"))
                      ELSE IF clean = "no" THEN SetTop(Throw(g, "NotClean"))
                      ELSE IF upToDate = "error" THEN SetTop(Throw(h, "VcsError"))
                      ELSE IF upToDate = "no" THEN SetTop(Throw(h, "NotUpToDate"))
                      ELSE SetTop(Goto(h, "artifactHandler"))
           ELSE SetTop(Goto(f, "artifactHandler"))
    /\ UNCHANGED <<call, options, world, cache, published, reservations, nextOp, nestedStarts>>

\* artifactHandler(): the backend is chosen and its verify() runs.
ArtifactHandler ==
    /\ At("artifactHandler")
    /\ \E ok \in BOOLEAN :
         SetTop(IF ok THEN Goto(Top, "getCurrentVcsCommit") ELSE Throw(Top, "VerifyFailed"))
    /\ UNCHANGED <<call, options, world, cache, published, reservations, nextOp, nestedStarts>>

\* const commit = vcsHandler ? await this.getCurrentVcsCommit() : null
GetCurrentVcsCommit ==
    /\ At("getCurrentVcsCommit")
    /\ SetTop([Top EXCEPT !.commit = IF Top.vcs THEN "c1" ELSE "null",
                          !.pc = "calculateMinimumIncrement"])
    /\ UNCHANGED <<call, options, world, cache, published, reservations, nextOp, nestedStarts>>

\* calculateConventionalIncrement(assetName): NONE without a latest version
\* or without a commit on record for it, else the increment of the commits
\* since that commit.
ConventionalIncrement(name) ==
    LET latestVersion == world.history[name]
    IN  IF latestVersion.version = "none" \/ latestVersion.commit = "null" THEN "NONE"
        ELSE calculateVersionIncrement(FALSE, latestVersion.commits)

AssetNameOf(asset) == asset.name

LastIncrement(assets, increment, lookups) ==
    [increment |-> ConventionalIncrement(AssetNameOf(assets[Len(assets)])),
     lookups |-> lookups + Len(assets), error |-> "none"]

\* The loop of calculateMinimumIncrement over the assets, in file order;
\* lookups counts the getLatestVersion calls.
RECURSIVE MinimumIncrement(_, _, _)
MinimumIncrement(assets, increment, lookups) ==
    IF assets = <<>> THEN [increment |-> increment, lookups |-> lookups, error |-> "none"]
    ELSE LET result == ConventionalIncrement(AssetNameOf(Head(assets)))
         IN  IF result = "TypeError"
             THEN [increment |-> increment, lookups |-> lookups + 1, error |-> result]
             ELSE IF result = "MAJOR"
             THEN [increment |-> result, lookups |-> lookups + 1, error |-> "none"]
             ELSE IF result = "MINOR"
             THEN MinimumIncrement(Tail(assets), result, lookups + 1)
             ELSE IF result = "PATCH" /\ increment = "NONE"
             THEN MinimumIncrement(Tail(assets), result, lookups + 1)
             ELSE MinimumIncrement(Tail(assets), increment, lookups + 1)

\* calculateMinimumIncrement(), only with version control; a lookup of the
\* registry or of the commit log may fail.
CalculateMinimumIncrement ==
    /\ At("calculateMinimumIncrement")
    /\ LET f == Top
           minimum == MinimumIncrement(f.assetDefinitions, "NONE", 0)
       IN  IF f.vcs
           THEN \E ok \in BOOLEAN :
                  IF ~ok
                  THEN SetTop(Throw([f EXCEPT !.calls.registry = @ + 1], "RegistryError"))
                  ELSE IF minimum.error # "none"
                  THEN SetTop(Throw([f EXCEPT !.calls.registry = @ + minimum.lookups],
                                    minimum.error))
                  ELSE SetTop([f EXCEPT !.minimumIncrement = minimum.increment,
                                        !.calls.registry = @ + minimum.lookups,
                                        !.pc = "checkDependencies"])
           ELSE SetTop(Goto(f, "checkDependencies"))
    /\ UNCHANGED <<call, options, world, cache, published, reservations, nextOp, nestedStarts>>

\* findAssetsInPath(): the assets of the definition files below the directory.
FindAssetsInPath(dir) ==
    [n \in Names |->
        LET holders == {d \in world.layout.children[dir] :
                           \E i \in 1..Len(world.layout.files[d]) :
                               world.layout.files[d][i].name = n}
        IN  IF holders = {} THEN "none" ELSE CHOOSE d \in holders : TRUE]

\* asset.metadata.name of a document without metadata throws in findAssetsInPath.
ScanFails(dir) ==
    \E d \in world.layout.children[dir] :
        \E i \in 1..Len(world.layout.files[d]) : ~world.layout.files[d][i].hasMetadata

\* checkDependencies(), up to its loop over the asset definitions.
CheckDependencies ==
    /\ At("checkDependencies")
    /\ LET f == Top
       IN  IF ScanFails(f.dir) THEN SetTop(Throw(Did(f, "checkDependencies", FALSE), "TypeError"))
           ELSE SetTop([f EXCEPT !.localAssets = FindAssetsInPath(f.dir),
                                 !.assetIndex = 1, !.newAssets = <<>>,
                                 !.pc = "resolveDependencies"])
    /\ UNCHANGED <<call, options, world, cache, published, reservations, nextOp, nestedStarts>>

\* _checkDependenciesFor(): const dependencies = await this.resolveDependencies(asset)
ResolveDependencies ==
    /\ At("resolveDependencies")
    /\ \E ok \in BOOLEAN :
         LET f == [Top EXCEPT !.calls.registry = @ + 1]
         IN  IF ok
             THEN SetTop([f EXCEPT !.dependencies = f.assetDefinitions[f.assetIndex].deps,
                                   !.dependencyIndex = 1, !.dependencyChanges = <<>>,
                                   !.cacheBefore = cache,
                                   !.pc = "dependency"])
             ELSE SetTop(Throw(Did(f, "checkDependencies", FALSE), "RegistryError"))
    /\ UNCHANGED <<call, options, world, cache, published, reservations, nextOp, nestedStarts>>

RealNestedOptions(opts) == [opts EXCEPT !.dryRun = FALSE]

\* new PushOperation(this._progressListener, assetLocalPath, this.options)
NestedOptions(opts) == opts

OwnDirectory(f, key) == f.dir

NoneWhileInProgress(f, key) ==
    LET path == IF f.localAssets[key] # "none" THEN f.localAssets[key]
                ELSE world.layout.linked[key]
    IN  IF \E i \in 1..Len(stack) : stack[i].dir = path THEN "none" ELSE path

\* Where the working copy of a local dependency is: the scanned index first,
\* then the local asset repository; "none" when neither has it.
AssetLocalPath(f, key) ==
    IF f.localAssets[key] # "none" THEN f.localAssets[key] ELSE world.layout.linked[key]

DoNotAwait(f) == [f EXCEPT !.dependencyIndex = @ + 1]

\* const { references } = await dependencyOperation.perform()
Await(f) == [f EXCEPT !.pc = "nested"]

\* One turn of the loop over the dependencies of an asset: skip what is not
\* local, reuse a cached mapping, or publish the working copy with a nested
\* PushOperation.
CheckDependency ==
    /\ At("dependency")
    /\ Top.dependencyIndex <= Len(Top.dependencies)
    /\ LET f == Top
           dependency == f.dependencies[f.dependencyIndex]
           dependencyUri == parseKapetaUri(dependency)
           key == AssetName(dependencyUri.handle, dependencyUri.name)
       IN  IF dependencyUri.version # "local"
           THEN /\ SetTop([f EXCEPT !.dependencyIndex = @ + 1])
                /\ UNCHANGED <<nextOp, nestedStarts>>
           ELSE IF cache[dependency] # NoString
           THEN /\ SetTop([f EXCEPT !.dependencyIndex = @ + 1,
                                    !.dependencyChanges =
                                        Append(@, [from |-> dependency, to |-> cache[dependency]])])
                /\ UNCHANGED <<nextOp, nestedStarts>>
           ELSE IF AssetLocalPath(f, key) = "none"
           THEN /\ SetTop(Throw(Did(Unresolved(f, "notFound"), "checkDependencies", FALSE),
                                "DependencyNotFound"))
                /\ UNCHANGED <<nextOp, nestedStarts>>
           ELSE /\ Len(stack) < MaxDepth
                /\ stack' = Append([stack EXCEPT ![Len(stack)] =
                                      [Await(f) EXCEPT
                                          !.nested = Append(@, [dependency |-> dependency,
                                                                op |-> nextOp + 1,
                                                                asset |-> f.assetIndex,
                                                                returned |-> FALSE,
                                                                accepted |-> 0])]],
                                   NewOperation(nextOp + 1, f.id, dependency,
                                                AssetLocalPath(f, key), NestedOptions(f.options)))
                /\ nextOp' = nextOp + 1
                /\ nestedStarts' = [nestedStarts EXCEPT ![dependency] = @ + 1]
    /\ UNCHANGED <<call, options, world, cache, published, reservations>>

AcceptsEveryReference(dependency, references) ==
    [i \in 1..Len(references) |-> [from |-> dependency, to |-> references[i]]]

\* The references of a nested publish that become substitutes of the dependency.
AcceptedChanges(dependency, references) ==
    LET dependencyUri == parseKapetaUri(dependency)
        accepted(reference) ==
            LET referenceUri == parseKapetaUri(reference)
            IN  /\ referenceUri.handle = dependencyUri.handle
                /\ referenceUri.name = dependencyUri.name
                /\ referenceUri.version # "local"
        matching == SelectSeq(references, accepted)
    IN  [i \in 1..Len(matching) |-> [from |-> dependency, to |-> matching[i]]]

\* The nested perform() returned: its references are examined and the loop
\* goes on with the next dependency.
CachesAtOnce(mapping, changes) ==
    IF changes = <<>> THEN mapping
    ELSE [mapping EXCEPT ![changes[1].from] = changes[Len(changes)].to]

\* The cache when a nested perform() has returned: the accepted references
\* go to dependencyChanges only.
CacheOnReturn(mapping, changes) == mapping

FailsWithoutSubstitute(parent, changes) ==
    IF changes = <<>> THEN Throw(parent, "NoSubstitute")
    ELSE [parent EXCEPT !.dependencyChanges = @ \o changes,
                        !.dependencyIndex = @ + 1, !.pc = "dependency"]

\* The parent after the nested perform(): the accepted references, none
\* included, are added to dependencyChanges and the loop goes on.
Resumed(parent, changes) ==
    [parent EXCEPT !.dependencyChanges = @ \o changes,
                   !.dependencyIndex = @ + 1, !.pc = "dependency"]

NestedReturned ==
    /\ Len(stack) > 1
    /\ Top.pc = "returned"
    /\ LET parent == stack[Len(stack) - 1]
           dependency == parent.dependencies[parent.dependencyIndex]
           changes == AcceptedChanges(dependency, Top.references)
           waiting == [parent EXCEPT !.nested[Len(parent.nested)].returned = TRUE,
                                     !.nested[Len(parent.nested)].accepted = Len(changes)]
       IN  /\ stack' = [SubSeq(stack, 1, Len(stack) - 1) EXCEPT ![Len(stack) - 1] =
                           Resumed(waiting, changes)]
           /\ cache' = CacheOnReturn(cache, AcceptedChanges(dependency, Top.references))
    /\ UNCHANGED <<call, options, world, published, reservations, nextOp, nestedStarts>>

\* The nested perform() threw: the error goes up through the parent's perform().
NestedThrew ==
    /\ Len(stack) > 1
    /\ Top.pc = "thrown"
    /\ stack' = [SubSeq(stack, 1, Len(stack) - 1) EXCEPT ![Len(stack) - 1] =
                    Throw(Did(Unresolved(stack[Len(stack) - 1], "nestedThrew"),
                              "checkDependencies", FALSE),
                          Top.error)]
    /\ UNCHANGED <<call, options, world, cache, published, reservations, nextOp, nestedStarts>>

\* The registry's updateDependencies: every dependency that a mapping names
\* is replaced by the target of one of its mappings.
UpdateDependencies(asset, changes) ==
    LET targets(dep) == {changes[i].to : i \in {k \in 1..Len(changes) : changes[k].from = dep}}
        candidates(dep) == IF targets(dep) = {} THEN {dep} ELSE targets(dep)
        all == UNION {candidates(asset.deps[j]) : j \in 1..Len(asset.deps)}
    IN  {[asset EXCEPT !.deps = s] :
            s \in {t \in [1..Len(asset.deps) -> all] :
                      \A j \in 1..Len(asset.deps) : t[j] \in candidates(asset.deps[j])}}

\* dependencyChanges.forEach((ref) => LOCAL_VERSION_MAPPING_CACHE[ref.from] = ref.to)
RECURSIVE CacheMappings(_, _)
CacheMappings(mapping, changes) ==
    IF changes = <<>> THEN mapping
    ELSE CacheMappings([mapping EXCEPT ![Head(changes).from] = Head(changes).to], Tail(changes))

RewritesOnlyInDryRun(opts, changes) == opts.dryRun /\ Len(changes) > 0

RewritesInDryRunToo(opts, changes) == Len(changes) > 0

\* if (!this.options.dryRun && dependencyChanges.length > 0)
RewritesDependencies(opts, changes) == ~opts.dryRun /\ Len(changes) > 0

WrittenBack(file, index, newAsset) == [file EXCEPT ![index] = newAsset]

\* The definition file on disk after an asset of it was rewritten: the new
\* definition is returned to checkDependencies() and kept in memory only.
DefinitionFile(file, index, newAsset) == file

\* The asset's loop is over: the mappings are cached and the asset rewritten;
\* after the last asset checkDependencies() replaces this.assetDefinitions.
FinishDependencies ==
    /\ At("dependency")
    /\ Top.dependencyIndex > Len(Top.dependencies)
    /\ LET f == Top
           asset == f.assetDefinitions[f.assetIndex]
           rewrites == RewritesDependencies(f.options, f.dependencyChanges)
           next(g, newAsset) ==
               LET newAssets == Append(g.newAssets, newAsset)
               IN  IF g.assetIndex < Len(g.assetDefinitions)
                   THEN [g EXCEPT !.newAssets = newAssets, !.assetIndex = @ + 1,
                                  !.pc = "resolveDependencies"]
                   ELSE [Did(g, "checkDependencies", TRUE)
                            EXCEPT !.newAssets = newAssets, !.assetDefinitions = newAssets,
                                   !.pc = "runBuild"]
           checked(g, with, result) ==
               [g EXCEPT !.checked = Append(@, [changes |-> f.dependencyChanges,
                                                with |-> with, result |-> result])]
       IN  IF rewrites
           THEN /\ cache' = CacheMappings(cache, f.dependencyChanges)
                /\ LET g == [f EXCEPT !.calls.registry = @ + 1,
                                      !.updates = Append(@, f.assetIndex)]
                   IN  \/ /\ SetTop(Throw(Did(checked(g, f.dependencyChanges, "threw"),
                                              "checkDependencies", FALSE), "RegistryError"))
                          /\ UNCHANGED world
                       \/ \E newAsset \in UpdateDependencies(asset, f.dependencyChanges) :
                            /\ SetTop(next(checked(g, f.dependencyChanges, newAsset), newAsset))
                            /\ world' = [world EXCEPT !.layout.files[f.dir] =
                                             DefinitionFile(@, f.assetIndex, newAsset)]
           ELSE /\ cache' = cache
                /\ SetTop(next(checked(f, <<>>, asset), asset))
                /\ UNCHANGED world
    /\ UNCHANGED <<call, options, published, reservations, nextOp, nestedStarts>>

\* _hasScript(file): FS.existsSync('./scripts/' + file), a path relative to
\* the working directory of the process.
HasScript(scripts) == scripts[WorkingDirectory] # "missing"

\* _runScript(file) up to the run: the stat of the same relative path.
IsFile(scripts) == scripts[WorkingDirectory] = "file"

\* this._progressListener.run(scriptPath, this._directory): the relative
\* path is run in the directory of the operation, where it can succeed only
\* when there is such a file.
RunOutcomes(scripts, dir) == IF scripts[dir] = "file" THEN BOOLEAN ELSE {FALSE}

\* What the build or the test step can do: which of the script and the
\* backend it runs, and the error it ends in ("none" when it succeeds).
StepOutcomes(scripts, dir) ==
    IF HasScript(scripts)
    THEN IF ~IsFile(scripts) THEN {[ran |-> "notAFile", error |-> "ScriptNotAFile"]}
         ELSE {[ran |-> "script", error |-> IF ok THEN "none" ELSE "ScriptFailed"] :
                  ok \in RunOutcomes(scripts, dir)}
    ELSE {[ran |-> "backend", error |-> IF ok THEN "none" ELSE "BackendFailed"] :
             ok \in BOOLEAN}

\* runBuild(): build.sh or the backend's build(); an error is rethrown.
RunBuild ==
    /\ At("runBuild")
    /\ \E outcome \in StepOutcomes(world.scripts.build, Top.dir) :
         LET ok == outcome.error = "none"
             f == Did([Top EXCEPT !.calls.build = @ + 1, !.build = outcome.ran],
                      "runBuild", ok)
         IN  SetTop(IF ok THEN Goto(f, "runTests") ELSE Throw(f, "BuildFailed"))
    /\ UNCHANGED <<call, options, world, cache, published, reservations, nextOp, nestedStarts>>

AlwaysSkipTests(opts) == TRUE

\* if (this.options.skipTests)
SkipTests(opts) == opts.skipTests

UnderlyingCause(cause) == cause

\* catch (e) { throw new Error('Tests failed') }
TestsFailed(cause) == "TestsFailed"

\* runTests(): nothing with skipTests; any failure becomes 'Tests failed'.
RunTests ==
    /\ At("runTests")
    /\ IF SkipTests(Top.options)
       THEN SetTop(Goto(Top, "getBranch"))
       ELSE \E outcome \in StepOutcomes(world.scripts.test, Top.dir) :
              LET ok == outcome.error = "none"
                  f == Did([Top EXCEPT !.calls.test = @ + 1, !.test = outcome.ran,
                                       !.testError = outcome.error],
                           "runTests", ok)
              IN  SetTop(IF ok THEN Goto(f, "getBranch")
                         ELSE Throw(f, TestsFailed(outcome.error)))
    /\ UNCHANGED <<call, options, world, cache, published, reservations, nextOp, nestedStarts>>

\* const { branch, main } = vcsHandler ? await vcsHandler.getBranch(..) : defaults
GetBranch ==
    /\ At("getBranch")
    /\ IF Top.vcs
       THEN \E outcome \in {"main", "other", "failed"} :
              SetTop(CASE outcome = "main" ->
                            [Did(Top, "getBranch", TRUE)
                                EXCEPT !.main = TRUE, !.branch = "master",
                                       !.pc = "calculateChecksum"]
                       [] outcome = "other" ->
                            [Did(Top, "getBranch", TRUE)
                                EXCEPT !.main = FALSE, !.branch = "feature",
                                       !.pc = "calculateChecksum"]
                       [] OTHER -> Throw(Did(Top, "getBranch", FALSE), "BranchFailed"))
       ELSE SetTop([Top EXCEPT !.main = TRUE, !.branch = "master", !.pc = "calculateChecksum"])
    /\ UNCHANGED <<call, options, world, cache, published, reservations, nextOp, nestedStarts>>

\* const checksum = await artifactHandler.calculateChecksum()
CalculateChecksum ==
    /\ At("calculateChecksum")
    /\ \E ok \in BOOLEAN :
         LET f == Did([Top EXCEPT !.calls.checksum = @ + 1], "calculateChecksum", ok)
         IN  SetTop(IF ok THEN [f EXCEPT !.checksum = "sum", !.pc = "reserveVersions"]
                          ELSE Throw(f, "ChecksumFailed"))
    /\ UNCHANGED <<call, options, world, cache, published, reservations, nextOp, nestedStarts>>

\* The registry's answer to reserveVersions: one version per asset of the
\* request, the latest published one when it is flagged as existing, else the next.
ReservedVersions(assets, exists) ==
    [i \in 1..Len(assets) |->
        LET number == IF exists[i] THEN published[assets[i].name]
                      ELSE published[assets[i].name] + 1
        IN  [name |-> assets[i].name, number |-> number,
             version |-> VersionString(number), exists |-> exists[i]]]

IsExisting(version) == version.exists

IsNew(version) == ~version.exists

\* reservation.versions = reservation.versions.filter(...)
NewVersions(versions) == SelectSeq(versions, IsNew)

CollectsNewVersions(versions) == SelectSeq(versions, IsNew)

\* existingVersions, as the filter callback collects them
ExistingVersions(versions) == SelectSeq(versions, IsExisting)

ReferenceOf(assetVersion) == FormatReference(assetVersion.name, assetVersion.version)

\* references: assetVersions.map(...)
References(assetVersions) ==
    [i \in 1..Len(assetVersions) |-> ReferenceOf(assetVersions[i])]

\* if (reservation.versions.length < 1)
NothingNew(versions) == Len(versions) < 1

\* reserveVersions() and what perform() does with the answer before its try
\* block: the existing versions are filtered out, and when nothing new is
\* left perform() returns their references.
ReserveVersions ==
    /\ At("reserveVersions")
    /\ LET f == [Top EXCEPT !.calls.reserve = @ + 1, !.calls.registry = @ + 1,
                            !.request =
                                [assets |-> Top.assetDefinitions, mainBranch |-> Top.main,
                                 branchName |-> Top.branch, commit |-> Top.commit,
                                 checksum |-> Top.checksum,
                                 minimumIncrement |-> Top.minimumIncrement]]
           id == Len(reservations) + 1
       IN  \/ /\ SetTop(Throw(Did(f, "reserveVersions", FALSE), "RegistryError"))
              /\ UNCHANGED reservations
           \/ /\ SetTop(Throw(Did(f, "reserveVersions", FALSE), "NoReservation"))
              /\ UNCHANGED reservations
           \/ \E exists \in {e \in [1..Len(f.request.assets) -> BOOLEAN] :
                               \A i \in 1..Len(f.request.assets) :
                                   e[i] => published[f.request.assets[i].name] > 0} :
                LET answer == ReservedVersions(f.request.assets, exists)
                    versions == NewVersions(answer)
                    existingVersions == ExistingVersions(answer)
                    g == [Did(f, "reserveVersions", TRUE)
                             EXCEPT !.reservation = id, !.versions = versions,
                                    !.existingVersions = existingVersions]
                IN  /\ reservations' = Append(reservations,
                           [op |-> f.id, parent |-> f.parent, forDependency |-> f.forDependency,
                            versions |-> answer, commitCalls |-> 0, abortCalls |-> 0,
                            commitReturned |-> FALSE, committed |-> FALSE,
                            aborted |-> FALSE, pushed |-> 0, pushFailed |-> FALSE,
                            assetVersions |-> <<>>])
                    /\ IF NothingNew(versions)
                       THEN SetTop([g EXCEPT !.references = References(existingVersions),
                                             !.shortCircuit = TRUE, !.pc = "returned"])
                       ELSE SetTop(Goto(g, "prepare"))
    /\ UNCHANGED <<call, options, world, cache, published, nextOp, nestedStarts>>

\* The tags of a main-branch publish with version control.
VcsTags(versions) ==
    IF Len(versions) > 1
    THEN [i \in 1..Len(versions) |-> <<"v", versions[i].version, "-">> \o versions[i].name]
    ELSE IF Len(versions) = 1 THEN <<<<"v", versions[1].version>>>>
    ELSE <<>>

NeverDryRun(opts) == FALSE

\* const dryRun = !!this.options.dryRun
IsDryRun(opts) == opts.dryRun

TagsOnEveryBranch(f) == IF f.vcs THEN VcsTags(f.versions) ELSE <<>>

\* if (vcsHandler) { ... if (main) { vcsTags.push(...) } }
TagsOf(f) == IF f.vcs /\ f.main THEN VcsTags(f.versions) ELSE <<>>

\* The start of the try block: repository and tags, readme and attachments.
Prepare ==
    /\ At("prepare")
    /\ \E ok \in BOOLEAN :
         LET f == Top
         IN  IF ~ok THEN SetTop([f EXCEPT !.caught = "PrepareFailed", !.pc = "abort"])
             ELSE SetTop([f EXCEPT !.vcsTags = TagsOf(f),
                                   !.versionIndex = 1,
                                   !.pc = IF IsDryRun(f.options) THEN "dryRun" ELSE "push"])
    /\ UNCHANGED <<call, options, world, cache, published, reservations, nextOp, nestedStarts>>

AlwaysWithRepository(f, reservedVersion, artifact) ==
    [name |-> reservedVersion.name, version |-> reservedVersion.version,
     number |-> reservedVersion.number, checksum |-> f.checksum,
     repository |-> "git", artifact |-> artifact]

\* const assetVersion: AssetVersion = {...}: repository stays undefined
\* without a VCS handler.
AssetVersion(f, reservedVersion, artifact) ==
    [name |-> reservedVersion.name, version |-> reservedVersion.version,
     number |-> reservedVersion.number, checksum |-> f.checksum,
     repository |-> IF f.vcs THEN "git" ELSE "undefined", artifact |-> artifact]

PushFailureSkipped(f) == [f EXCEPT !.versionIndex = @ + 1]

\* artifactHandler.push() rejects inside the try block: the catch block is next.
PushFailed(f) == [f EXCEPT !.caught = "PushFailed", !.pc = "abort"]

\* One turn of the push loop: artifactHandler.push() for a reserved version.
PushArtifact ==
    /\ At("push")
    /\ Top.versionIndex <= Len(Top.versions)
    /\ \E ok \in BOOLEAN :
         LET f == [Top EXCEPT !.calls.push = @ + 1]
         IN  /\ IF ok
                THEN SetTop([f EXCEPT !.assetVersions =
                                          Append(@, AssetVersion(f, f.versions[f.versionIndex],
                                                                 "artifact")),
                                      !.versionIndex = @ + 1])
                ELSE SetTop(PushFailed(f))
             /\ reservations' = [reservations EXCEPT
                                    ![f.reservation].pushed = IF ok THEN @ + 1 ELSE @,
                                    ![f.reservation].pushFailed = @ \/ ~ok]
    /\ UNCHANGED <<call, options, world, cache, published, nextOp, nestedStarts>>

\* The registry publishes the committed versions.
RECURSIVE Publish(_, _)
Publish(latest, assetVersions) ==
    IF assetVersions = <<>> THEN latest
    ELSE Publish([latest EXCEPT ![Head(assetVersions).name] = Head(assetVersions).number],
                 Tail(assetVersions))

\* The answers of the registry to a commit or an abort that the model follows.
ReservationResponses == {Ok, NotFound, Conflict}

\* After the push loop: commitReservation(reservation, assetVersions). The
\* registry publishes the versions when it answers 200; the call returns
\* whenever _request returns.
CommitReservation ==
    /\ At("push")
    /\ Top.versionIndex > Len(Top.versions)
    /\ \E response \in ReservationResponses :
         LET f == [Top EXCEPT !.calls.commit = @ + 1, !.calls.registry = @ + 1]
             outcome == Wrapped("commitReservation", Request(RegistryUrl, response))
         IN  /\ SetTop(IF outcome.thrown THEN [f EXCEPT !.caught = "CommitFailed", !.pc = "abort"]
                       ELSE Goto(f, "tag"))
             /\ reservations' = [reservations EXCEPT
                                    ![f.reservation].commitCalls = @ + 1,
                                    ![f.reservation].assetVersions = f.assetVersions,
                                    ![f.reservation].commitReturned = ~outcome.thrown,
                                    ![f.reservation].committed = (response = Ok)]
             /\ published' = IF response = Ok THEN Publish(published, f.assetVersions)
                             ELSE published
    /\ UNCHANGED <<call, options, world, cache, nextOp, nestedStarts>>

\* What the tagging block can do: tag() fails at one of the tags, or every
\* tag is set and pushTags() succeeds or fails.
TaggingOutcomes(vcsTags) ==
    {[tag |-> n, pushTags |-> 0, error |-> "TagFailed"] : n \in 1..Len(vcsTags)}
        \cup {[tag |-> Len(vcsTags), pushTags |-> 1, error |-> e] :
                  e \in {"none", "PushTagsFailed"}}

TaggingErrorCaught(f, error) ==
    IF error = "none" THEN f ELSE [f EXCEPT !.caught = error, !.pc = "abort"]

\* try { ...tagging... } catch (e) { //Ignore errors for tagging }
IgnoreTaggingError(f, error) == f

\* Tagging after the commit: tag() per tag, then pushTags(); a failure ends
\* the tagging and is swallowed. Then perform() returns the references.
TagCommit ==
    /\ At("tag")
    /\ LET f == Top
           done == [f EXCEPT !.references = References(f.assetVersions), !.pc = "returned"]
       IN  IF f.vcs /\ Len(f.vcsTags) > 0
           THEN \E outcome \in TaggingOutcomes(f.vcsTags) :
                  SetTop(IgnoreTaggingError([done EXCEPT !.calls.tag = outcome.tag,
                                                         !.calls.pushTags = outcome.pushTags,
                                                         !.taggingError = outcome.error],
                                            outcome.error))
           ELSE SetTop(done)
    /\ UNCHANGED <<call, options, world, cache, published, reservations, nextOp, nestedStarts>>

NoArtifact(f, reservedVersion) == AssetVersion(f, reservedVersion, "null")

\* The dry-run branch: the asset versions are assembled and printed.
DryRun ==
    /\ At("dryRun")
    /\ LET f == Top
           assetVersions == [i \in 1..Len(f.versions) |-> NoArtifact(f, f.versions[i])]
       IN  SetTop([f EXCEPT !.assetVersions = assetVersions,
                            !.references = References(assetVersions),
                            !.pc = "returned"])
    /\ UNCHANGED <<call, options, world, cache, published, reservations, nextOp, nestedStarts>>

WithThoseOfDependencies(f) ==
    {k \in DOMAIN reservations : k = f.reservation \/ reservations[k].parent = f.id}

\* abortReservation(reservation): the reservation of this perform() only.
AbortedReservations(f) == {f.reservation}

\* The catch block: abortReservation(reservation), then throw e; when the
\* abort throws, its error leaves the catch block instead.
AbortReservation ==
    /\ At("abort")
    /\ \E response \in ReservationResponses :
         LET f == [Top EXCEPT !.calls.abort = @ + 1, !.calls.registry = @ + 1]
             outcome == Wrapped("abortReservation", Request(RegistryUrl, response))
         IN  /\ SetTop(IF outcome.thrown THEN Throw(f, "AbortFailed") ELSE Throw(f, f.caught))
             /\ reservations' =
                    [k \in DOMAIN reservations |->
                        IF k \in AbortedReservations(f)
                        THEN [reservations[k] EXCEPT !.abortCalls = @ + 1,
                                                     !.aborted = (response = Ok)]
                        ELSE reservations[k]]
    /\ UNCHANGED <<call, options, world, cache, published, nextOp, nestedStarts>>

Next ==
    \/ VcsHandler
    \/ CheckExists
    \/ CheckWorkingDirectory
    \/ ArtifactHandler
    \/ GetCurrentVcsCommit
    \/ CalculateMinimumIncrement
    \/ CheckDependencies
    \/ ResolveDependencies
    \/ CheckDependency
    \/ NestedReturned
    \/ NestedThrew
    \/ FinishDependencies
    \/ RunBuild
    \/ RunTests
    \/ GetBranch
    \/ CalculateChecksum
    \/ ReserveVersions
    \/ Prepare
    \/ PushArtifact
    \/ CommitReservation
    \/ TagCommit
    \/ DryRun
    \/ AbortReservation

Spec == Init /\ [][Next]_vars

\* Every awaited call of a collaborator returns or throws, and the event loop
\* then runs the continuation: a step that can be taken is taken.
FairSpec == Spec /\ WF_vars(Next)

----------------------------------------------------------------------------
\* calculateVersionIncrement, called on its own

\* Longest commit log the model follows.
MaxLog == 3

\* No push is running.
NoPush ==
    /\ options = [dryRun |-> FALSE, skipTests |-> FALSE, ignoreWorkingDirectory |-> FALSE]
    /\ world = [layout |-> Layout(<<>>, <<>>, <<>>, {}, NoLinks), vcs |-> FALSE,
                history |-> NoHistory, scripts |-> NoScripts]
    /\ stack = <<>>
    /\ cache = [n \in LocalNames |-> NoString]
    /\ published = [n \in Names |-> 1]
    /\ reservations = <<>>
    /\ nextOp = 0
    /\ nestedStarts = [n \in LocalNames |-> 0]

pushVars == <<options, world, stack, cache, published, reservations, nextOp, nestedStarts>>

\* The commit messages the log is made of.
Messages ==
    { <<<<"fix">> \o Subject>>,
      <<<<"feat">> \o Subject>>,
      <<<<"chore">> \o Subject>>,
      <<<<"Feat">> \o Subject>>,
      <<<<"fix", "(", "core", ")">> \o Subject>>,
      <<<<"feat", "!">> \o Subject>>,
      <<<<"chore", "(", "core", ")", "!">> \o Subject>>,
      <<<<"!">> \o Subject>>,
      <<<<"Not", " ", "conventional">>>>,
      <<<<"feat">> \o Subject, <<"BREAKING CHANGE", ": ", "x">>>>,
      <<<<"fix">> \o Subject, <<"BREAKING-CHANGE", ": ", "x">>>>,
      <<<<"chore">> \o Subject, <<"some", " ", "body">>, <<"breaking change", ": ", "x">>>>,
      <<<<"Not", " ", "conventional">>, <<"BREAKING CHANGE", ": ", "x">>>>,
      <<>> }

IncrementInit ==
    /\ NoPush
    /\ \E missing \in BOOLEAN :
         call = [function |-> "calculateVersionIncrement", missing |-> missing,
                 gitLogs |-> <<>>, state |-> "called", result |-> "none", shorter |-> "none"]

\* The call: it returns an increment or throws.
CallCalculateVersionIncrement ==
    /\ call.function = "calculateVersionIncrement"
    /\ call.state = "called"
    /\ LET result == calculateVersionIncrement(call.missing, call.gitLogs)
       IN  call' = [call EXCEPT !.result = result,
                                !.state = IF result = "TypeError" THEN "thrown" ELSE "returned"]
    /\ UNCHANGED pushVars

\* One more commit is in the log, and the function is called on the longer
\* log; shorter keeps the result for the log before.
AppendCommit ==
    /\ call.function = "calculateVersionIncrement"
    /\ call.state \in {"returned", "thrown"}
    /\ ~call.missing
    /\ Len(call.gitLogs) < MaxLog
    /\ \E message \in Messages :
         call' = [call EXCEPT !.gitLogs = Append(@, message), !.state = "called",
                              !.shorter = call.result, !.result = "none"]
    /\ UNCHANGED pushVars

IncrementNext ==
    \/ CallCalculateVersionIncrement
    \/ AppendCommit

IncrementSpec == IncrementInit /\ [][IncrementNext]_vars

----------------------------------------------------------------------------
\* A method of RegistryService, called on its own

RegistryInit ==
    /\ NoPush
    /\ \E method \in RegistryMethods, response \in Responses, baseUrl \in RegistryUrls :
         call = [function |-> "_request", method |-> method, response |-> response,
                 baseUrl |-> baseUrl, state |-> "called",
                 outcome |-> Returns("none"), result |-> Returns("none")]

\* _request() has an answer, or an error, and returns or throws.
CallRequest ==
    /\ call.function = "_request"
    /\ call.state = "called"
    /\ call' = [call EXCEPT !.outcome = Request(call.baseUrl, call.response),
                            !.state = "answered"]
    /\ UNCHANGED pushVars

\* The method of PushOperation that made the call goes on.
ReturnToCaller ==
    /\ call.function = "_request"
    /\ call.state = "answered"
    /\ call' = [call EXCEPT !.result = Wrapped(call.method, call.outcome), !.state = "done"]
    /\ UNCHANGED pushVars

RegistryNext ==
    \/ CallRequest
    \/ ReturnToCaller

RegistrySpec == RegistryInit /\ [][RegistryNext]_vars

----------------------------------------------------------------------------
\* Two top-level perform() calls in one process
\*
\* Both PushOperations are constructed and their perform() started; each runs
\* until it awaits, and the event loop then goes on with either. stack is
\* the call chain that runs, call.stack the one that waits.

\* How often the model lets the event loop change between the two calls.
MaxSwitches == 2

SecondDir == "dC"

\* A and C, each in a directory of its own, depend on local B of the local
\* repository.
TwoDependents ==
    Layout(<<Document(NameA, DependsOn(NameB))>>, FileB, <<Document(NameC, DependsOn(NameB))>>,
           {}, Linked(NameB, "dB"))

ConcurrentInit ==
    /\ options \in {o \in Options : o.skipTests /\ o.ignoreWorkingDirectory}
    /\ world = [layout |-> TwoDependents, vcs |-> FALSE, history |-> NoHistory,
                scripts |-> NoScripts]
    /\ stack = <<NewOperation(1, 0, NoString, RootDir, options)>>
    /\ call = [function |-> "perform",
               stack |-> <<NewOperation(2, 0, NoString, SecondDir, options)>>,
               running |-> 1, switches |-> 0]
    /\ cache = [n \in LocalNames |-> NoString]
    /\ published = [n \in Names |-> 1]
    /\ reservations = <<>>
    /\ nextOp = 2
    /\ nestedStarts = [n \in LocalNames |-> 0]

\* The call that runs awaits, and the other call goes on.
Switch ==
    /\ call.function = "perform"
    /\ call.switches < MaxSwitches
    /\ stack' = call.stack
    /\ call' = [call EXCEPT !.stack = stack, !.running = 3 - @, !.switches = @ + 1]
    /\ UNCHANGED <<options, world, cache, published, reservations, nextOp, nestedStarts>>

ConcurrentNext ==
    \/ Next
    \/ Switch

ConcurrentSpec == ConcurrentInit /\ [][ConcurrentNext]_vars

----------------------------------------------------------------------------
\* Top-level calls of perform() one after the other in one process: the next
\* one starts when the one before has returned or thrown.

\* How many top-level calls the model follows.
MaxRuns == 2

\* The layouts with local dependencies that the sequence is followed on.
SequenceLayouts ==
    { Layout(<<Document(NameA, <<LocalDependency(NameB), NameC \o <<":", "1.0.0">>>>)>>,
             FileB, <<>>, {"dB"}, NoLinks),
      Layout(<<Document(NameA, DependsOn(NameB)), Document(NameA2, DependsOn(NameB))>>,
             FileB, <<>>, {"dB"}, NoLinks) }

SequenceOptions == {o \in Options : o.skipTests /\ o.ignoreWorkingDirectory}

SequentialInit ==
    /\ options \in SequenceOptions
    /\ world \in {[layout |-> l, vcs |-> FALSE, history |-> NoHistory, scripts |-> NoScripts] :
                     l \in SequenceLayouts}
    /\ stack = <<NewOperation(1, 0, NoString, RootDir, options)>>
    /\ call = [function |-> "sequence", runs |-> 1,
               cached |-> [n \in LocalNames |-> NoString],
               starts |-> [n \in LocalNames |-> 0]]
    /\ cache = [n \in LocalNames |-> NoString]
    /\ published = [n \in Names |-> 1]
    /\ reservations = <<>>
    /\ nextOp = 1
    /\ nestedStarts = [n \in LocalNames |-> 0]

ClearedCache(mapping) == [n \in LocalNames |-> NoString]

\* LOCAL_VERSION_MAPPING_CACHE is a constant of the module: a new
\* PushOperation finds what the ones before it left there.
CacheOfNextRun(mapping) == mapping

\* The caller starts the next top-level perform(), with options of its own.
PerformAgain ==
    /\ call.function = "sequence"
    /\ call.runs < MaxRuns
    /\ Len(stack) = 1 /\ stack[1].pc \in {"returned", "thrown"}
    /\ \E opts \in SequenceOptions :
         /\ options' = opts
         /\ stack' = <<NewOperation(nextOp + 1, 0, NoString, RootDir, opts)>>
    /\ nextOp' = nextOp + 1
    /\ cache' = CacheOfNextRun(cache)
    /\ call' = [call EXCEPT !.runs = @ + 1, !.cached = cache, !.starts = nestedStarts]
    /\ UNCHANGED <<world, published, reservations, nestedStarts>>

SequentialNext ==
    \/ Next
    \/ PerformAgain

SequentialSpec == SequentialInit /\ [][SequentialNext]_vars

----------------------------------------------------------------------------
\* The push action: link, perform(), install, and the catch around them.
\* call holds the action's position and flags; stack is empty until the
\* action calls perform().

\* The worlds the action is followed in: A alone and A with a local
\* dependency, with and without version control.
PushWorlds ==
    {[layout |-> l, vcs |-> v, history |-> NoHistory, scripts |-> NoScripts] :
        l \in { Layout(<<Document(NameA, <<>>)>>, <<>>, <<>>, {}, NoLinks),
                Layout(<<Document(NameA, DependsOn(NameB))>>, FileB, <<>>, {"dB"}, NoLinks) },
        v \in BOOLEAN}

PushInit ==
    /\ options \in {o \in Options : o.ignoreWorkingDirectory}
    /\ world \in PushWorlds
    /\ stack = <<>>
    /\ \E skipLinking \in BOOLEAN, skipInstall \in BOOLEAN :
         call = [function |-> "push", pc |-> "link",
                 skipLinking |-> skipLinking, skipInstall |-> skipInstall,
                 links |-> 0, installs |-> 0, installed |-> <<>>,
                 reported |-> <<>>, cause |-> "none", error |-> "none"]
    /\ cache = [n \in LocalNames |-> NoString]
    /\ published = [n \in Names |-> 1]
    /\ reservations = <<>>
    /\ nextOp = 1
    /\ nestedStarts = [n \in LocalNames |-> 0]

GenericError(err) == "PushFailed"

\* throw err
Rethrown(err) == err

\* catch (err) { progressListener.error('Push failed'); ...; throw err }
Caught(c, err) ==
    [c EXCEPT !.pc = "thrown", !.reported = Append(@, "Push failed"),
              !.cause = err, !.error = Rethrown(err)]

\* if (!options.skipLinking && !options.dryRun)
Links(c, opts) == ~c.skipLinking /\ ~opts.dryRun

\* if (mainBranch && !options.skipInstall && !options.dryRun && references.length > 0)
Installs(c, opts, result) ==
    result.mainBranch /\ ~c.skipInstall /\ ~opts.dryRun /\ Len(result.references) > 0

\* The start of the action up to its call of perform(): link, unless skipped.
LinkLocalVersion ==
    /\ call.function = "push" /\ call.pc = "link"
    /\ \/ /\ Links(call, options)
          /\ \/ /\ call' = [call EXCEPT !.links = @ + 1, !.pc = "perform"]
                /\ stack' = <<NewOperation(1, 0, NoString, RootDir, options)>>
             \/ /\ call' = Caught([call EXCEPT !.links = @ + 1], "LinkFailed")
                /\ UNCHANGED stack
       \/ /\ ~Links(call, options)
          /\ call' = [call EXCEPT !.pc = "perform"]
          /\ stack' = <<NewOperation(1, 0, NoString, RootDir, options)>>
    /\ UNCHANGED <<options, world, cache, published, reservations, nextOp, nestedStarts>>

\* perform() has returned: install of the references, or nothing more.
InstallNewVersions ==
    /\ call.function = "push" /\ call.pc = "perform"
    /\ Len(stack) = 1 /\ stack[1].pc = "returned"
    /\ LET result == [references |-> stack[1].references, mainBranch |-> stack[1].main]
       IN  IF Installs(call, options, result)
           THEN LET c == [call EXCEPT !.installs = @ + 1, !.installed = result.references]
                IN  \/ call' = [c EXCEPT !.pc = "returned"]
                    \/ call' = Caught(c, "InstallFailed")
           ELSE call' = [call EXCEPT !.pc = "returned"]
    /\ UNCHANGED pushVars

\* perform() has thrown: the catch block.
PerformThrew ==
    /\ call.function = "push" /\ call.pc = "perform"
    /\ Len(stack) = 1 /\ stack[1].pc = "thrown"
    /\ call' = Caught(call, stack[1].error)
    /\ UNCHANGED pushVars

PushNext ==
    \/ Next
    \/ LinkLocalVersion
    \/ InstallNewVersions
    \/ PerformThrew

PushSpec == PushInit /\ [][PushNext]_vars

----------------------------------------------------------------------------
\* install of the install action, called on its own
\*
\* The registry holds three assets of one handle, each in one version; an
\* asset's registration lists its dependencies by name.

Installables == {"a", "b", "c"}

InstallHandle == "h"

InstallVersion == "1.0.0"

\* The uri of an asset, with or without the protocol.
AssetUri(id, protocol) ==
    (IF protocol THEN <<"kapeta://">> ELSE <<>>)
        \o AssetName(InstallHandle, id) \o <<":", InstallVersion>>

\* `${assetInfo.handle}/${assetInfo.name}:${assetVersion.version}`
AttemptKey(assetInfo, version) ==
    AssetName(assetInfo.handle, assetInfo.name) \o <<":", version>>

\* The dependency graphs of the registry: a chain, a cycle of two, an asset
\* that depends on itself, and a cycle of three with a shortcut.
DependencyGraphs ==
    { [a |-> <<"b">>, b |-> <<"c">>, c |-> <<>>],
      [a |-> <<"b">>, b |-> <<"a">>, c |-> <<>>],
      [a |-> <<"a", "c">>, b |-> <<>>, c |-> <<"a">>],
      [a |-> <<"b", "c">>, b |-> <<"c">>, c |-> <<"a">>] }

\* assetVersion.dependencies of the registration of an asset
Dependencies(graph, protocol, name) ==
    [k \in 1..Len(graph[name]) |-> [name |-> AssetUri(graph[name][k], protocol)]]

\* allDependencies[d.name] = true: the keys of an object keep the order in
\* which they were first set.
SetKey(keys, key) == IF key \in Range(keys) THEN keys ELSE Append(keys, key)

RECURSIVE SetKeys(_, _)
SetKeys(keys, dependencies) ==
    IF dependencies = <<>> THEN keys
    ELSE SetKeys(SetKey(keys, Head(dependencies).name), Tail(dependencies))

\* Object.keys(allDependencies).filter((d) => !attemptedToInstall[d])
RECURSIVE NotAttempted(_, _)
NotAttempted(keys, attempted) ==
    IF keys = <<>> THEN <<>>
    ELSE (IF Head(keys) \in attempted THEN <<>> ELSE <<Head(keys)>>)
             \o NotAttempted(Tail(keys), attempted)

\* What one turn of the loop over the uris comes to: the registration could
\* not be loaded (not found, no artifact type, or the request failed), the
\* version file is there already, the handler is missing or its pull or
\* install failed, or the asset was installed.
LoadFailed == "Registration not found"
InstallFailed == "Failed to install"
UriOutcomes(exists) ==
    IF exists THEN {LoadFailed, "exists"} ELSE {LoadFailed, InstallFailed, "installed"}

CollectsFromEvery(outcome) == outcome \in {"installed", "exists"}

\* The dependencies of an asset are collected as the last step of a fresh
\* installation.
CollectsFrom(outcome) == outcome = "installed"

InstallUris ==
    { <<AssetUri("a", TRUE)>>,
      <<AssetUri("a", TRUE), AssetUri("b", FALSE)>>,
      <<AssetUri("c", FALSE), AssetUri("a", TRUE)>>,
      <<AssetUri("b", TRUE), AssetUri("b", TRUE)>> }

InstallKeys == {AssetUri(id, FALSE) : id \in Installables}

\* A call of install; attemptedToInstall belongs to the module and the
\* version files to the disk, so both may hold entries of earlier calls.
InstallInit ==
    /\ NoPush
    /\ \E graph \in DependencyGraphs, protocol \in BOOLEAN, uris \in InstallUris,
          skipDependencies \in BOOLEAN, attempted \in SUBSET InstallKeys,
          files \in SUBSET InstallKeys :
         call = [function |-> "install", pc |-> "loop",
                 graph |-> graph, protocol |-> protocol,
                 skipDependencies |-> skipDependencies,
                 uris |-> uris, i |-> 1, allDependencies |-> <<>>,
                 attemptedToInstall |-> attempted, versionFiles |-> files,
                 outcomes |-> <<>>, reported |-> {},
                 recursive |-> FALSE]

\* One turn of the loop: the try block and its catch.
InstallUri ==
    /\ call.function = "install" /\ call.pc = "loop"
    /\ call.i <= Len(call.uris)
    /\ LET uri == call.uris[call.i]
           assetInfo == parseKapetaUri(uri)
           key == AttemptKey(assetInfo, assetInfo.version)
           exists == key \in call.versionFiles
       IN  \E outcome \in UriOutcomes(exists) :
             call' = [call EXCEPT
               !.i = @ + 1,
               !.attemptedToInstall =
                   IF outcome = LoadFailed THEN @ ELSE @ \cup {key},
               !.versionFiles =
                   IF outcome = "installed" THEN @ \cup {key} ELSE @,
               !.allDependencies =
                   IF CollectsFrom(outcome)
                   THEN SetKeys(@, Dependencies(call.graph, call.protocol, assetInfo.name))
                   ELSE @,
               !.reported =
                   IF outcome \in {LoadFailed, InstallFailed} THEN @ \cup {uri} ELSE @,
               !.outcomes = Append(@, outcome)]
    /\ UNCHANGED pushVars

\* After the loop: done, or install again with the dependencies that were
\* not attempted yet.
InstallDependencies ==
    /\ call.function = "install" /\ call.pc = "loop"
    /\ call.i > Len(call.uris)
    /\ LET dependencies == NotAttempted(call.allDependencies, call.attemptedToInstall)
       IN  IF call.skipDependencies \/ dependencies = <<>>
           THEN call' = [call EXCEPT !.pc = "done"]
           ELSE call' = [call EXCEPT !.uris = dependencies, !.i = 1,
                                     !.allDependencies = <<>>,
                                     !.outcomes = <<>>,
                                     !.recursive = TRUE]
    /\ UNCHANGED pushVars

InstallNext ==
    \/ InstallUri
    \/ InstallDependencies

InstallSpec == InstallInit /\ [][InstallNext]_vars /\ WF_vars(InstallNext)

----------------------------------------------------------------------------
\* getArtifactHandler, called on its own
\*
\* A directory is the set of the names of the files in it.

ArtifactFiles == {"Dockerfile", "package.json", "pom.xml", "kapeta.yml"}

HandlersNPMFirst == <<"NPMHandler", "DockerHandler", "MavenHandler", "YAMLHandler">>

ARTIFACT_HANDLERS == <<"DockerHandler", "NPMHandler", "MavenHandler", "YAMLHandler">>

\* isSupported of the four handlers
isSupported(handler, directory) ==
    CASE handler = "DockerHandler" -> "Dockerfile" \in directory
      [] handler = "NPMHandler" -> "package.json" \in directory
      [] handler = "MavenHandler" -> "pom.xml" \in directory
      [] handler = "YAMLHandler" -> TRUE

\* The loop over ARTIFACT_HANDLERS; "null" when it runs out.
RECURSIVE FirstSupported(_, _)
FirstSupported(handlers, directory) ==
    IF handlers = <<>> THEN "null"
    ELSE IF isSupported(Head(handlers), directory) THEN Head(handlers)
    ELSE FirstSupported(Tail(handlers), directory)

ExecutableBlockType == "core/block-type-executable"

getArtifactHandler(baseKind, assetKind, directory) ==
    IF baseKind = ExecutableBlockType /\ assetKind # baseKind
           /\ isSupported("YAMLHandler", directory)
    THEN "YAMLHandler"
    ELSE FirstSupported(ARTIFACT_HANDLERS, directory)

\* The kinds getArtifactHandler is called with.
HandlerKinds == {ExecutableBlockType, "core/block-type", "h/k:1.0.0"}

HandlerInit ==
    /\ NoPush
    /\ \E baseKind \in HandlerKinds, assetKind \in HandlerKinds,
          directory \in SUBSET ArtifactFiles :
         call = [function |-> "getArtifactHandler", pc |-> "called",
                 baseKind |-> baseKind, assetKind |-> assetKind,
                 directory |-> directory, handler |-> "none"]

GetArtifactHandler ==
    /\ call.function = "getArtifactHandler" /\ call.pc = "called"
    /\ call' = [call EXCEPT
                  !.pc = "returned",
                  !.handler = getArtifactHandler(call.baseKind, call.assetKind,
                                                 call.directory)]
    /\ UNCHANGED pushVars

HandlerNext == GetArtifactHandler

HandlerSpec == HandlerInit /\ [][HandlerNext]_vars

----------------------------------------------------------------------------
\* Properties

Operations == {stack[i] : i \in 1..Len(stack)}

Reservations == {reservations[k] : k \in 1..Len(reservations)}

\* perform() of the operation has returned or thrown (or is long gone).
Over(op) == \A f \in Operations : f.id = op => f.pc \in {"returned", "thrown"}

HasNewVersion(r) == \E i \in 1..Len(r.versions) : ~r.versions[i].exists

\* C1: for every reservation that holds a new version, exactly one of
\* commitReservation and abortReservation has been invoked when perform()
\* has returned or thrown, in dry runs too.
C1_ExactlyOneOfCommitOrAbort ==
    \A r \in Reservations :
        HasNewVersion(r) /\ Over(r.op) => r.commitCalls + r.abortCalls = 1

\* C2: when perform() throws after a step of its try block failed, it has
\* called abortReservation once and the error it throws is the error of
\* that step, also when the abort failed.
C2_AbortKeepsOriginalError ==
    \A f \in Operations :
        f.pc = "thrown" /\ f.caught # "none" => f.calls.abort = 1 /\ f.error = f.caught

\* C3: in one invocation tree a nested publish is started at most once per
\* local dependency name.
C3_NestedPublishAtMostOnce ==
    \A n \in LocalNames : nestedStarts[n] <= 1

\* The asset a local dependency names.
DependencyAsset(dependency) ==
    AssetName(parseKapetaUri(dependency).handle, parseKapetaUri(dependency).name)

\* The new versions a reservation holds for an asset.
NewVersionsOf(r, name) ==
    {r.versions[i].version : i \in {k \in 1..Len(r.versions) :
                                       r.versions[k].name = name /\ ~r.versions[k].exists}}

\* The versions of an asset that a reservation shows to be published: those
\* it found to exist, and its new ones once its commitReservation completed.
PublishedBy(r, name) ==
    {r.versions[i].version : i \in {k \in 1..Len(r.versions) :
                                       /\ r.versions[k].name = name
                                       /\ r.versions[k].exists \/ r.commitReturned}}

\* The references to the versions of a dependency that the nested publishes
\* of an operation for that dependency have published.
ResolvedFor(f, dependency) ==
    {FormatReference(DependencyAsset(dependency), v) :
        v \in UNION {PublishedBy(r, DependencyAsset(dependency)) :
                        r \in {q \in Reservations : /\ q.parent = f.id
                                                    /\ q.forDependency = dependency}}}

C5_DryRunNeverPushesOrCommits ==
    \A f \in Operations :
        f.options.dryRun =>
            /\ f.calls.push = 0 /\ f.calls.commit = 0
            /\ f.pc = "returned" =>
                  /\ f.calls.build = 1
                  /\ f.calls.test = (IF f.options.skipTests THEN 0 ELSE 1)
                  /\ f.calls.checksum = 1
                  /\ f.calls.reserve = 1

\* C5 witness: a dry run returned the references of new versions.
C5_Witness ==
    \E f \in Operations :
        f.options.dryRun /\ f.pc = "returned" /\ ~f.shortCircuit /\ Len(f.references) > 0

AllReferences(r) ==
    [i \in 1..Len(r.versions) |-> FormatReference(r.versions[i].name, r.versions[i].version)]

\* C7: when every version of the reservation exists already, perform() has
\* returned straight after reserveVersions: commitReservation,
\* abortReservation, ArtifactBackend.push, tag and pushTags were not called,
\* and the references returned are those of the existing versions in
\* reservation order.
C7_NothingNewShortCircuits ==
    \A f \in Operations :
        f.reservation > 0 /\ ~HasNewVersion(reservations[f.reservation]) =>
            /\ f.pc = "returned" /\ f.shortCircuit
            /\ f.calls.commit = 0 /\ f.calls.abort = 0 /\ f.calls.push = 0
            /\ f.calls.tag = 0 /\ f.calls.pushTags = 0
            /\ reservations[f.reservation].commitCalls = 0
            /\ reservations[f.reservation].abortCalls = 0
            /\ f.references = AllReferences(reservations[f.reservation])

\* C7 witness: a reservation of two existing versions made perform() return
\* their two references.
C7_Witness ==
    \E f \in Operations :
        /\ f.shortCircuit /\ f.pc = "returned"
        /\ Len(reservations[f.reservation].versions) = 2
        /\ Len(f.references) = 2

\* C8: the references a successful perform() returns hold a reference for
\* every version the registry flagged as existing, also next to new versions.
C8_ExistingVersionsReturned ==
    \A f \in Operations :
        f.pc = "returned" /\ f.reservation > 0 =>
            \A i \in 1..Len(reservations[f.reservation].versions) :
                reservations[f.reservation].versions[i].exists =>
                    AllReferences(reservations[f.reservation])[i] \in Range(f.references)

LacksName(doc) == ~doc.hasMetadata \/ doc.name = NoString

InvalidFile(dir) ==
    /\ world.layout.fileState[dir] = "file"
    /\ \E i \in 1..Len(world.layout.files[dir]) : LacksName(world.layout.files[dir][i])

\* C9: an operation whose definition file holds a document without metadata
\* or metadata.name fails in checkExists: it makes no registry call, builds
\* and tests nothing, and throws the validation error.
C9_ValidationBeforeRegistry ==
    \A f \in Operations :
        InvalidFile(f.dir) =>
            /\ f.pc \in {"vcsHandler", "checkExists", "thrown"}
            /\ f.pc = "thrown" => f.error \in {"MissingMetadata", "MissingName"}
            /\ f.calls.registry = 0 /\ f.calls.reserve = 0
            /\ f.calls.build = 0 /\ f.calls.test = 0

\* C9 witness: a file whose first document names a published kind and whose
\* second lacks metadata.name was rejected.
C9_Witness ==
    \E f \in Operations :
        /\ InvalidFile(f.dir) /\ f.pc = "thrown" /\ f.error = "MissingName"
        /\ ~IsCoreKind(world.layout.files[f.dir][1].kind)

\* C10: on a main-branch publish with version control one tag is computed
\* per new version, v{version} when the definition file holds one asset and
\* v{version}-{assetName} when it holds several.
C10_TagPerNewVersion ==
    \A f \in Operations :
        f.vcs /\ f.main /\ f.pc \in {"push", "dryRun", "tag"} =>
            f.vcsTags =
                [i \in 1..Len(f.versions) |->
                    IF Len(world.layout.files[f.dir]) = 1
                    THEN <<"v", f.versions[i].version>>
                    ELSE <<"v", f.versions[i].version, "-">> \o f.versions[i].name]

\* C11: once commitReservation has succeeded, a failure of tag() or
\* pushTags() does not fail the publish: perform() returns the references of
\* the committed versions and abortReservation is not called.
C11_TaggingFailureSwallowed ==
    \A f \in Operations :
        f.taggingError # "none" =>
            /\ f.pc = "returned"
            /\ reservations[f.reservation].commitReturned
            /\ f.calls.abort = 0 /\ reservations[f.reservation].abortCalls = 0
            /\ f.references = References(NewVersions(reservations[f.reservation].versions))

\* C11 witness: both tags of a two-version publish were set, pushTags()
\* failed, and perform() returned.
C11_Witness ==
    \E f \in Operations :
        /\ f.taggingError = "PushTagsFailed" /\ f.calls.tag = 2
        /\ f.pc = "returned" /\ Len(f.references) = 2

\* A call of calculateVersionIncrement is over.
IncrementCalled == call.function = "calculateVersionIncrement" /\ call.state # "called"

\* The commit has a `!` in front of the colon of its header, or a line that
\* starts a BREAKING CHANGE or BREAKING-CHANGE note.
CarriesBreakingMarker(message) ==
    /\ message # <<>>
    /\ \/ \E k \in 1..Len(Head(message)) :
             /\ Head(message)[k] = "!"
             /\ k < Len(Head(message)) /\ Head(message)[k + 1] = ": "
       \/ \E l \in 2..Len(message) : IsNote(message[l])

IsFeat(message) ==
    /\ message # <<>>
    /\ MatchHeader(Head(message)).matches
    /\ toLowerCase(MatchHeader(Head(message)).type) = "feat"

\* C12: calculateVersionIncrement returns NONE exactly for an empty or
\* missing log, else MAJOR if a commit carries a breaking marker, else MINOR
\* if a commit is a feat, else PATCH.
C12_IncrementByHighestMarker ==
    IncrementCalled =>
        call.result =
            IF call.missing \/ call.gitLogs = <<>> THEN "NONE"
            ELSE IF \E i \in 1..Len(call.gitLogs) : CarriesBreakingMarker(call.gitLogs[i])
                 THEN "MAJOR"
            ELSE IF \E i \in 1..Len(call.gitLogs) : IsFeat(call.gitLogs[i]) THEN "MINOR"
            ELSE "PATCH"

IsIncrement(result) == result \in {"NONE", "PATCH", "MINOR", "MAJOR"}

\* MAJOR > MINOR > PATCH > NONE
Severity(increment) ==
    CASE increment = "MAJOR" -> 3
      [] increment = "MINOR" -> 2
      [] increment = "PATCH" -> 1
      [] OTHER -> 0

IncrementFor(name) ==
    IF world.history[name].version = "none" \/ world.history[name].commit = "null" THEN "NONE"
    ELSE calculateVersionIncrement(FALSE, world.history[name].commits)

\* The highest of a set of increments, NONE for the empty set.
Highest(increments) ==
    CHOOSE i \in increments \cup {"NONE"} :
        \A j \in increments \cup {"NONE"} : Severity(i) >= Severity(j)

\* C14: the minimumIncrement of a reservation request is the highest of the
\* increments of the assets of the definition file, and NONE without
\* version control.
C14_MinimumIncrementIsHighest ==
    \A f \in Operations :
        f.calls.reserve > 0 =>
            LET file == world.layout.files[f.dir]
                increments == {r \in {IncrementFor(file[i].name) : i \in 1..Len(file)} :
                                  IsIncrement(r)}
            IN  f.request.minimumIncrement = (IF f.vcs THEN Highest(increments) ELSE "NONE")

\* C14 witness: a request for a file of two assets was sent with MINOR, the
\* increment of the first asset, while the second asset gives PATCH.
C14_Witness ==
    \E f \in Operations :
        /\ f.calls.reserve > 0 /\ f.vcs
        /\ Len(world.layout.files[f.dir]) = 2
        /\ IncrementFor(world.layout.files[f.dir][1].name) = "MINOR"
        /\ IncrementFor(world.layout.files[f.dir][2].name) = "PATCH"
        /\ f.request.minimumIncrement = "MINOR"

\* The steps of perform() from the dependency resolution to the reservation.
StepsToReserve(f) ==
    <<"checkDependencies", "runBuild">>
        \o (IF f.options.skipTests THEN <<>> ELSE <<"runTests">>)
        \o (IF f.vcs THEN <<"getBranch">> ELSE <<>>)
        \o <<"calculateChecksum", "reserveVersions">>

\* C15: the steps run in the order dependency resolution, build, tests
\* (unless skipTests), branch lookup, checksum, reserveVersions, each after
\* the one before succeeded; when one of the steps before reserveVersions
\* fails, perform() throws without running a later step and without calling
\* reserveVersions, commitReservation or abortReservation.
C15_ReserveAfterAllStepsSucceeded ==
    \A f \in Operations :
        /\ Len(f.steps) <= Len(StepsToReserve(f))
        /\ \A i \in 1..Len(f.steps) :
              /\ f.steps[i].step = StepsToReserve(f)[i]
              /\ i < Len(f.steps) => f.steps[i].ok
        /\ f.calls.reserve > 0 => Len(f.steps) = Len(StepsToReserve(f))
        /\ \A i \in 1..Len(f.steps) :
              ~f.steps[i].ok /\ f.steps[i].step # "reserveVersions" =>
                  /\ f.pc = "thrown"
                  /\ f.calls.reserve = 0 /\ f.calls.commit = 0 /\ f.calls.abort = 0
                  /\ f.reservation = 0

\* C15 witness: with version control and tests, the checksum calculation
\* failed after the four steps before it succeeded.
C15_Witness ==
    \E f \in Operations :
        /\ f.vcs /\ ~f.options.skipTests
        /\ Len(f.steps) = 5 /\ ~f.steps[5].ok /\ f.pc = "thrown"

\* C16: when a local dependency of an asset has no working copy to publish
\* from, or its nested publish throws, perform() of the dependent throws:
\* updateDependencies was not called for that asset, nothing was built and
\* no reservation was asked for.
C16_UnresolvedDependencyFails ==
    \A f \in Operations :
        \A i \in 1..Len(f.unresolved) :
            /\ f.pc = "thrown"
            /\ f.unresolved[i].asset \notin Range(f.updates)
            /\ f.calls.build = 0 /\ f.calls.reserve = 0 /\ f.reservation = 0
            /\ \A r \in Reservations : r.op # f.id

\* C16 witness: the nested publish of the dependency reserved, failed and
\* aborted, and the dependent has thrown.
C16_Witness ==
    \E f \in Operations :
        /\ Len(f.unresolved) = 1 /\ f.unresolved[1].why = "nestedThrew"
        /\ f.pc = "thrown"
        /\ \E r \in Reservations : r.parent = f.id /\ r.aborted

\* C16 witness of the other case: the dependency is neither cached nor below
\* the directory nor in the local repository.
C16_NotFound ==
    \E f \in Operations :
        Len(f.unresolved) = 1 /\ f.unresolved[1].why = "notFound" /\ f.pc = "thrown"

\* C17: a refused connection becomes an error that names the registry URL;
\* an error answer with a message from the server becomes an error with that
\* message; a 404 becomes null for getVersion and getLatestVersion, and is an
\* error for reserveVersions, commitReservation and abortReservation.
C17_RegistryFailureMapping ==
    call.function = "_request" /\ call.state = "done" =>
        LET lookup == call.method \in {"getVersion", "getLatestVersion"}
            response == call.response
        IN  /\ response = ConnectionRefused =>
                  call.result.thrown /\ call.baseUrl \in Range(call.result.error)
            /\ response.statusCode >= 400 /\ response.bodyMessage # NoString
                  /\ ~(response.statusCode = 404 /\ lookup) =>
                      call.result.thrown /\ call.result.error = response.bodyMessage
            /\ response.statusCode = 404 /\ lookup =>
                  ~call.result.thrown /\ call.result.value = "null"
            /\ response.statusCode = 404
                  /\ call.method \in {"reserveVersions", "commitReservation", "abortReservation"} =>
                      call.result.thrown

\* C18: the base kind that resolveBaseKind() gave an operation is a core/
\* kind, however long the chain of kinds that leads to it.
C18_BaseKindIsCore ==
    \A f \in Operations : f.baseKind # NoString => IsCoreKind(f.baseKind)

\* The operation holds a reservation with a new version for which neither
\* commitReservation nor abortReservation has been called.
BetweenReserveAndCommit(f) ==
    /\ f.reservation > 0
    /\ HasNewVersion(reservations[f.reservation])
    /\ reservations[f.reservation].commitCalls = 0
    /\ reservations[f.reservation].abortCalls = 0

\* C19: every operation but the innermost waits for the nested perform() of
\* the dependency its loop is at, and has not reserved yet; so, when the run
\* is no dry run, at most one operation is between its reserveVersions and
\* its commit or abort.
C19_NestedPublishesOneAtATime ==
    /\ \A i \in 1..(Len(stack) - 1) :
          /\ stack[i].pc = "nested"
          /\ stack[i].reservation = 0 /\ stack[i].calls.reserve = 0
          /\ stack[i + 1].parent = stack[i].id
          /\ stack[i + 1].forDependency = stack[i].dependencies[stack[i].dependencyIndex]
    /\ ~options.dryRun =>
          /\ Cardinality({i \in 1..Len(stack) : BetweenReserveAndCommit(stack[i])}) <= 1
          /\ Cardinality({k \in 1..Len(reservations) :
                             /\ HasNewVersion(reservations[k])
                             /\ reservations[k].commitCalls = 0
                             /\ reservations[k].abortCalls = 0}) <= 1

\* C19 witness: below two waiting operations the innermost nested publish
\* holds an open reservation, after an earlier nested publish has committed.
C19_Witness ==
    /\ ~options.dryRun
    /\ Len(stack) = 3
    /\ BetweenReserveAndCommit(stack[3])
    /\ \E r \in Reservations : r.committed

\* C20: two top-level perform() calls that run interleaved and depend on the
\* same local dependency start at most one nested publish of it between
\* them (in a run that is no dry run, where the cache is written).
C20_SharedDependencyPublishedOnce ==
    call.function = "perform" /\ ~options.dryRun =>
        \A n \in LocalNames : nestedStarts[n] <= 1

\* C21: no step of perform() changes a definition file on disk, and a step
\* of an operation leaves the asset definitions that the operations waiting
\* below it hold in memory as they are.
C21_DefinitionFileNeverWritten ==
    [][/\ world'.layout.files = world.layout.files
       /\ world'.layout.fileState = world.layout.fileState
       /\ Len(stack') = Len(stack) =>
             \A i \in 1..(Len(stack) - 1) :
                 stack'[i].assetDefinitions = stack[i].assetDefinitions]_vars

\* C21 witness: an operation sent a reservation request with rewritten
\* definitions, which differ from the documents of its definition file.
C21_Witness ==
    \E f \in Operations :
        /\ f.reservation > 0 /\ Len(f.updates) > 0
        /\ f.request.assets # world.layout.files[f.dir]
        /\ LocalDependency(NameB) \in Range(world.layout.files[f.dir][1].deps)
        /\ LocalDependency(NameB) \notin Range(f.request.assets[1].deps)

\* C23: outside dry runs commitReservation is called at most once for a
\* reservation, only after push() has succeeded for every new reserved
\* version, and with one asset version per new reserved version in the order
\* of the reservation; when a push has failed the commit is never called and
\* nothing of the reservation is published.
C23_CommitOnceAfterEveryPush ==
    /\ \A f \in Operations : f.calls.commit <= 1
    /\ \A r \in Reservations :
          LET new == NewVersions(r.versions)
          IN  /\ r.commitCalls <= 1
              /\ r.commitCalls = 1 =>
                    /\ ~r.pushFailed
                    /\ r.pushed = Len(new)
                    /\ Len(r.assetVersions) = Len(new)
                    /\ \A i \in 1..Len(new) :
                          /\ r.assetVersions[i].name = new[i].name
                          /\ r.assetVersions[i].version = new[i].version
                          /\ r.assetVersions[i].artifact = "artifact"
              /\ r.pushFailed => r.commitCalls = 0 /\ ~r.committed

C23_Witness ==
    /\ \E r \in Reservations : r.commitCalls = 1 /\ Len(r.assetVersions) >= 1
    /\ \E r \in Reservations : r.pushFailed /\ r.pushed = 1 /\ r.abortCalls = 1

\* Asset i of operation f went through _checkDependenciesFor as the claim
\* says for an asset that is rewritten: updateDependencies was called once,
\* with every entry produced for the asset, and what it returned is the asset
\* that goes on.
Rewritten(f, i) ==
    /\ Cardinality({k \in 1..Len(f.updates) : f.updates[k] = i}) = 1
    /\ f.checked[i].with = f.checked[i].changes
    /\ i <= Len(f.newAssets) => f.newAssets[i] = f.checked[i].result

\* ... and as it says for an asset that is passed on unchanged.
PassedOn(f, i) ==
    /\ i \notin Range(f.updates)
    /\ i <= Len(f.newAssets)
    /\ f.newAssets[i] = world.layout.files[f.dir][i]

\* C24 (amended): outside dry runs, for every asset with at least one
\* ReferenceMap entry updateDependencies is called once with all entries of
\* the asset and the definition it returns replaces the asset in the
\* reservation request; an asset without entries, and in a dry run every
\* asset, is passed on unchanged without a call of updateDependencies.
C24_RewrittenOutsideDryRuns ==
    \A f \in Operations :
        /\ \A i \in 1..Len(f.checked) :
              IF Len(f.checked[i].changes) > 0 /\ ~f.options.dryRun
              THEN Rewritten(f, i) ELSE PassedOn(f, i)
        /\ f.request # NoRequest => f.request.assets = f.newAssets

\* C24 as claimed: the same, in dry runs as well.
C24_RewrittenInDryRunsToo ==
    \A f \in Operations :
        /\ \A i \in 1..Len(f.checked) :
              IF Len(f.checked[i].changes) > 0
              THEN Rewritten(f, i) ELSE PassedOn(f, i)
        /\ f.request # NoRequest => f.request.assets = f.newAssets

C24_Witness ==
    \E f \in Operations :
        /\ ~f.options.dryRun /\ f.request # NoRequest
        /\ \E i \in 1..Len(f.checked) :
              /\ Len(f.checked[i].changes) > 0
              /\ f.request.assets[i] = f.checked[i].result
              /\ f.request.assets[i] # world.layout.files[f.dir][i]

\* The keys of the mapping cache that hold an entry.
Cached == {key \in DOMAIN cache : cache[key] # NoString}

\* C25: every entry of the mapping cache maps a reference of version `local`
\* to a reference with the same handle and name and a version other than
\* `local`, so no reference that a nested publish returned for another asset
\* became a substitute; and no step deletes an entry.
C25_CacheMapsLocalToPublished ==
    /\ [](\A key \in Cached :
            LET from == parseKapetaUri(key)
                to == parseKapetaUri(cache[key])
            IN  /\ from.version = "local"
                /\ to.handle = from.handle /\ to.name = from.name
                /\ to.version # "local")
    /\ [][\A key \in Cached : cache'[key] # NoString]_vars

C25_Witness ==
    /\ Cached # {}
    /\ \E f \in Operations :
          \E k \in 1..Len(f.nested) :
              \E r \in Reservations :
                  /\ r.op = f.nested[k].op /\ r.commitReturned
                  /\ Len(r.versions) > 1

\* C26: when the directory has no version control, the reservation request
\* carries branchName "master", mainBranch true, commit null and
\* minimumIncrement NONE, neither check of the working directory is made,
\* no assembled AssetVersion has a repository, and no tag is created.
C26_WithoutVersionControl ==
    ~world.vcs =>
        \A f \in Operations :
            /\ f.calls.reserve > 0 =>
                  /\ f.request.branchName = "master"
                  /\ f.request.mainBranch = TRUE
                  /\ f.request.commit = "null"
                  /\ f.request.minimumIncrement = "NONE"
            /\ f.calls.isClean = 0 /\ f.calls.isUpToDate = 0
            /\ \A i \in 1..Len(f.assetVersions) : f.assetVersions[i].repository = "undefined"
            /\ f.vcsTags = <<>> /\ f.calls.tag = 0 /\ f.calls.pushTags = 0

C26_Witness ==
    /\ ~world.vcs
    /\ \E f \in Operations :
          /\ f.pc = "returned" /\ f.calls.commit = 1
          /\ Len(f.assetVersions) > 0 /\ ~f.options.ignoreWorkingDirectory

\* C27: with version control and ignoreWorkingDirectory unset, a working
\* directory that is not clean or not up to date makes perform() fail with
\* an error that names --ignore-working-directory before any build, test,
\* reservation or push of the operation; the up-to-date check is made only
\* after the clean check said yes; with ignoreWorkingDirectory set neither
\* check is made.
C27_WorkingDirectoryChecked ==
    \A f \in Operations :
        /\ f.isClean = "no" \/ f.isUpToDate = "no" =>
              /\ f.pc = "thrown"
              /\ "--ignore-working-directory" \in Range(Message(f.error))
              /\ f.calls.build = 0 /\ f.calls.test = 0
              /\ f.calls.reserve = 0 /\ f.calls.push = 0
        /\ f.isUpToDate # "unknown" => f.isClean = "yes"
        /\ f.calls.isClean <= 1 /\ f.calls.isUpToDate <= f.calls.isClean
        /\ (f.vcs /\ ~f.options.ignoreWorkingDirectory
                  /\ f.pc \notin {"vcsHandler", "checkExists", "checkWorkingDirectory", "thrown"})
              => f.isClean = "yes" /\ f.isUpToDate = "yes"
        /\ f.options.ignoreWorkingDirectory =>
              f.calls.isClean = 0 /\ f.calls.isUpToDate = 0

C27_Witness ==
    /\ world.vcs /\ ~options.ignoreWorkingDirectory
    /\ \E f \in Operations : f.isUpToDate = "no" /\ f.pc = "thrown" /\ f.id > 1

\* C28: when the test step of an operation fails, its perform() throws the
\* generic error 'Tests failed' and not the cause, and the operation makes no
\* reservation; with skipTests set neither the test script nor the backend's
\* test() runs, and no operation fails at its tests.
C28_TestsFailedIsGeneric ==
    \A f \in Operations :
        /\ f.testError # "none" =>
              /\ f.pc = "thrown"
              /\ f.error = "TestsFailed" /\ f.error # f.testError
              /\ f.calls.reserve = 0 /\ f.reservation = 0
        /\ f.options.skipTests =>
              /\ f.test = "none" /\ f.calls.test = 0
              /\ f.error # "TestsFailed"
              /\ f.calls.reserve > 0 => f.calls.build = 1

C28_Witness ==
    \E f \in Operations :
        /\ f.test = "script" /\ f.testError = "ScriptFailed"
        /\ f.pc = "thrown" /\ f.error = "TestsFailed" /\ f.calls.build = 1

\* C29 as claimed: every operation, root or nested, runs the script of a
\* step when the directory of the asset it publishes has one and the
\* backend's function otherwise, for the build and for the tests.
C29_ScriptOfTheAssetDirectory ==
    \A f \in Operations :
        /\ f.build \in {"script", "backend"} =>
              (f.build = "script" <=> world.scripts.build[f.dir] = "file")
        /\ f.test \in {"script", "backend"} =>
              (f.test = "script" <=> world.scripts.test[f.dir] = "file")

\* C30: nothing stops the recursion over a cycle of local dependencies. With
\* A depending on B:local and B on A:local, both on disk, every operation is
\* nested in one for the other asset and waits for it, none fails to find
\* its dependency, none returns, and reserveVersions is never reached, for
\* A or for B.
C30_CycleNeverReserves ==
    world.layout = Cycle =>
        /\ Len(reservations) = 0
        /\ \A i \in 1..Len(stack) :
              /\ stack[i].dir = (IF i % 2 = 1 THEN "dA" ELSE "dB")
              /\ stack[i].calls.reserve = 0
              /\ stack[i].pc # "returned"
              /\ stack[i].error # "DependencyNotFound"
              /\ i < Len(stack) => stack[i].pc = "nested"
        /\ cache = [n \in LocalNames |-> NoString]

C30_Witness ==
    /\ world.layout = Cycle
    /\ Len(stack) = MaxDepth
    /\ Top.pc = "dependency" /\ Top.dependencyIndex <= Len(Top.dependencies)
    /\ parseKapetaUri(Top.dependencies[Top.dependencyIndex]).version = "local"

\* The directories that the local dependencies of the assets of a directory
\* resolve to: the scan below the directory first, then the local repository.
LocalTargets(dir) ==
    LET docs == world.layout.files[dir]
        deps == UNION {Range(docs[i].deps) : i \in 1..Len(docs)}
        path(dep) ==
            LET uri == parseKapetaUri(dep)
                key == AssetName(uri.handle, uri.name)
            IN  IF FindAssetsInPath(dir)[key] # "none" THEN FindAssetsInPath(dir)[key]
                ELSE world.layout.linked[key]
    IN  {path(dep) : dep \in {d \in deps : parseKapetaUri(d).version = "local"}} \ {"none"}

Longest(lengths) == IF lengths = {} THEN 0 ELSE CHOOSE n \in lengths : \A m \in lengths : m <= n

\* The number of directories on the longest chain of local dependencies that
\* starts at dir, followed for at most fuel directories.
RECURSIVE ChainLength(_, _)
ChainLength(dir, fuel) ==
    IF fuel = 0 THEN 0
    ELSE 1 + Longest({ChainLength(target, fuel - 1) : target \in LocalTargets(dir)})

\* No chain is longer than the number of directories: none comes back to a
\* directory it has been at.
Acyclic == ChainLength(RootDir, Cardinality(Dirs) + 1) <= Cardinality(Dirs)

LongestChain == ChainLength(RootDir, Cardinality(Dirs))

\* C31: when the graph of local dependencies is acyclic and every call of a
\* collaborator returns or throws, the operations nested in one another are
\* never more than the directories on the longest chain of local
\* dependencies, and the top-level perform() eventually returns or throws.
C31_TerminatesWithinChainDepth ==
    /\ [](Acyclic => Len(stack) <= LongestChain)
    /\ (Acyclic => <>(Len(stack) = 1 /\ stack[1].pc \in {"returned", "thrown"}))

C31_Witness ==
    /\ Acyclic /\ LongestChain = 3
    /\ Len(stack) = 3 /\ Top.pc = "returned"

\* The dependency loop of the asset that operation f is at has thrown.
LoopThrew(f) ==
    /\ f.pc = "thrown"
    /\ \E k \in 1..Len(f.unresolved) : f.unresolved[k].asset = f.assetIndex

\* Only the end of an asset's dependency loop, in an operation that is no dry
\* run, changes the cache, and it adds the mappings of that loop.
WrittenAtEndOfLoop ==
    cache' # cache =>
        /\ At("dependency") /\ Top.dependencyIndex > Len(Top.dependencies)
        /\ ~Top.options.dryRun
        /\ cache' = CacheMappings(cache, Top.dependencyChanges)

\* C32 (amended): the cache is written only at the end of an asset's
\* dependency loop, after every dependency of the asset was processed
\* without error, and only when dryRun is not set; a loop in which the
\* resolution of a dependency throws never gets there, so the asset's own
\* loop has written nothing, whatever it published before.
C32_CacheWrittenAtEndOfLoop ==
    /\ [][WrittenAtEndOfLoop]_vars
    /\ [](\A f \in Operations :
            LoopThrew(f) => f.assetIndex \notin Range(f.updates)
                              /\ Len(f.checked) < f.assetIndex)

\* C32 as claimed: when the resolution of a dependency throws, the cache is
\* exactly as it was before the asset's loop started.
C32_CacheAsBeforeTheLoop ==
    \A f \in Operations : LoopThrew(f) => cache = f.cacheBefore

C32_Witness ==
    \E f \in Operations :
        /\ LoopThrew(f) /\ ~f.options.dryRun
        /\ f.dependencyIndex > 1
        /\ \E r \in Reservations : r.parent = f.id /\ r.committed
        /\ cache = f.cacheBefore

\* A step calls abortReservation only for the reservation of the operation
\* that is in its catch block, and nothing published is taken back.
AbortsOwnReservationOnly ==
    /\ \A k \in DOMAIN reservations :
          /\ reservations'[k].abortCalls > reservations[k].abortCalls =>
                At("abort") /\ Top.reservation = k /\ reservations[k].op = Top.id
          /\ reservations[k].committed => reservations'[k].committed
    /\ \A n \in Names : published'[n] >= published[n]

\* C33: a nested publish that committed stays committed when its parent
\* fails later: abortReservation is called for the parent's own reservation
\* only, never for the reservation of the dependency, and the published
\* version of the dependency stays published.
C33_CommittedDependencyStays ==
    /\ [][AbortsOwnReservationOnly]_vars
    /\ [](\A r \in Reservations :
            r.committed =>
                /\ r.abortCalls = 0
                /\ \A i \in 1..Len(r.assetVersions) :
                      published[r.assetVersions[i].name] >= r.assetVersions[i].number)

C33_Witness ==
    \E f \in Operations :
        /\ f.pc = "thrown" /\ f.calls.abort = 1 /\ f.reservation > 0
        /\ \E r \in Reservations : r.parent = f.id /\ r.committed /\ r.abortCalls = 0

\* The nested publish k of operation f returned without a reference that is
\* accepted as the substitute of its dependency.
WithoutSubstitute(f, k) == f.nested[k].returned /\ f.nested[k].accepted = 0

\* The step in which a nested perform() returns nothing acceptable: the
\* parent takes up its loop at the next dependency, without an error and
\* without a new mapping, in dependencyChanges or in the cache.
ResumesWithoutSubstitute ==
    (/\ Len(stack) > 1 /\ Top.pc = "returned"
     /\ LET parent == stack[Len(stack) - 1]
        IN  AcceptedChanges(parent.dependencies[parent.dependencyIndex],
                            Top.references) = <<>>)
        => /\ Len(stack') = Len(stack) - 1
           /\ LET before == stack[Len(stack) - 1]
                  after == stack'[Len(stack')]
              IN  /\ after.pc = "dependency" /\ after.error = "none"
                  /\ after.dependencyIndex = before.dependencyIndex + 1
                  /\ after.dependencyChanges = before.dependencyChanges
           /\ cache' = cache

\* C34: when a nested publish returns no reference with the handle and name
\* of the local dependency and a version other than `local`, an empty list
\* included, no mapping is recorded and no error is raised, and the
\* definitions that the parent sends to the registry still name the
\* dependency with version `local`.
C34_NoSubstituteNoError ==
    /\ [][ResumesWithoutSubstitute]_vars
    /\ [](\A f \in Operations :
            \A k \in 1..Len(f.nested) :
                LET i == f.nested[k].asset
                    d == f.nested[k].dependency
                    mapped == \E j \in 1..Len(f.nested) :
                                  /\ f.nested[j].asset = i /\ f.nested[j].dependency = d
                                  /\ f.nested[j].accepted > 0
                IN  (WithoutSubstitute(f, k) /\ ~mapped /\ i <= Len(f.checked)) =>
                        /\ \A c \in Range(f.checked[i].changes) : c.from # d
                        /\ i <= Len(f.newAssets) => d \in Range(f.newAssets[i].deps)
                        /\ f.calls.reserve > 0 => d \in Range(f.request.assets[i].deps))

C34_Witness ==
    \E f \in Operations :
        /\ f.pc = "returned" /\ f.calls.commit = 1
        /\ \E k \in 1..Len(f.nested) :
              /\ WithoutSubstitute(f, k)
              /\ f.nested[k].dependency \in Range(f.request.assets[f.nested[k].asset].deps)

\* The local dependencies of asset i of operation f, as its file names them,
\* that the cache held a mapping for when the current top-level call started.
CachedBefore(f, i) ==
    {d \in Range(world.layout.files[f.dir][i].deps) \cap LocalNames :
        call.cached[d] # NoString}

\* The dependency loop of asset i has taken the cached mapping of d and has
\* published nothing for it.
Reused(f, i, d) ==
    /\ [from |-> d, to |-> call.cached[d]] \in Range(f.checked[i].changes)
    /\ nestedStarts[d] = call.starts[d]
    /\ cache[d] = call.cached[d]

\* The definition that goes on names the cached version instead of `local`.
RewrittenTo(f, i, d) ==
    i <= Len(f.newAssets) =>
        /\ d \notin Range(f.newAssets[i].deps)
        /\ call.cached[d] \in Range(f.newAssets[i].deps)

\* C35 (amended): the mapping cache is not cleared between top-level calls:
\* a later top-level perform() in the same process takes a mapping recorded
\* by an earlier one without publishing the local dependency again, and,
\* unless it is a dry run, rewrites the dependency to the earlier version.
C35_CacheOutlivesTheRun ==
    call.function = "sequence" =>
        \A f \in Operations :
            \A i \in 1..Len(f.checked) :
                \A d \in CachedBefore(f, i) :
                    /\ Reused(f, i, d)
                    /\ ~f.options.dryRun => RewrittenTo(f, i, d)

\* C35 as claimed: every later top-level perform() rewrites the dependency.
C35_LaterRunRewrites ==
    call.function = "sequence" =>
        \A f \in Operations :
            \A i \in 1..Len(f.checked) :
                \A d \in CachedBefore(f, i) :
                    Reused(f, i, d) /\ RewrittenTo(f, i, d)

C35_Witness ==
    /\ call.function = "sequence" /\ call.runs = 2
    /\ Len(stack) = 1 /\ Top.pc = "returned" /\ Top.calls.commit = 1
    /\ CachedBefore(Top, 1) # {}
    /\ \A d \in CachedBefore(Top, 1) :
          call.cached[d] \in Range(Top.request.assets[1].deps) /\ nestedStarts[d] = 1

\* C36: tag() and pushTags() are called only by an operation with version
\* control, on the main branch, outside dry runs and off the short-circuit
\* path, after all its pushes succeeded and its commitReservation returned.
C36_TagsOnlyAfterCommit ==
    \A f \in Operations :
        (f.calls.tag > 0 \/ f.calls.pushTags > 0) =>
            /\ f.vcs /\ f.main
            /\ ~f.options.dryRun /\ ~f.shortCircuit
            /\ f.caught = "none"
            /\ f.calls.push = Len(f.versions)
            /\ f.calls.commit = 1 /\ f.reservation > 0
            /\ reservations[f.reservation].commitReturned
            /\ ~reservations[f.reservation].pushFailed

C36_Witness ==
    /\ \E f \in Operations : f.calls.pushTags = 1 /\ f.calls.tag = 2
    /\ \E r \in Reservations : r.commitReturned /\ r.parent > 0

\* C37: in the push action link runs, before perform(), only when neither
\* skipLinking nor dryRun is set; install runs only after perform() has
\* returned, with its references, and only when mainBranch is true,
\* skipInstall and dryRun are unset and there is a reference; and when link,
\* perform() or install fails, 'Push failed' is reported and the error that
\* failed them is rethrown.
C37_PushActionOrder ==
    call.function = "push" =>
        /\ call.pc = "link" => stack = <<>> /\ call.links = 0
        /\ call.links > 0 => ~call.skipLinking /\ ~options.dryRun
        /\ (stack # <<>> /\ ~call.skipLinking /\ ~options.dryRun) => call.links = 1
        /\ call.installs > 0 =>
              /\ Len(stack) = 1 /\ stack[1].pc = "returned"
              /\ call.installed = stack[1].references /\ Len(call.installed) > 0
              /\ stack[1].main /\ ~call.skipInstall /\ ~options.dryRun
        /\ call.cause # "none" =>
              /\ call.pc = "thrown" /\ call.error = call.cause
              /\ call.reported = <<"Push failed">>
        /\ (stack # <<>> /\ stack[1].pc = "thrown" /\ call.pc # "perform") =>
              call.cause = stack[1].error /\ call.installs = 0
        /\ call.pc = "returned" => call.reported = <<>> /\ stack[1].pc = "returned"

C37_Witness ==
    /\ call.function = "push" /\ call.pc = "thrown"
    /\ call.links = 1 /\ call.installs = 1 /\ call.error = "InstallFailed"
    /\ Len(stack[1].nested) > 0

\* The names of the dependencies of the uris of this call that were installed
\* afresh in it.
DependenciesOfInstalled ==
    UNION { {d.name : d \in Range(Dependencies(call.graph, call.protocol,
                                               parseKapetaUri(call.uris[k]).name))} :
            k \in {j \in 1..Len(call.outcomes) : call.outcomes[j] = "installed"} }

InstallSteps ==
    /\ Range(call.allDependencies) = DependenciesOfInstalled
    /\ Len(call.outcomes) = call.i - 1
    /\ \A k \in 1..Len(call.outcomes) :
         call.outcomes[k] \in {LoadFailed, InstallFailed} => call.uris[k] \in call.reported
    /\ call.pc = "done" => Len(call.outcomes) = Len(call.uris)
    /\ call.skipDependencies => ~call.recursive

\* C38: install(uris) eventually completes for every finite dependency graph,
\* cyclic ones included; the dependencies it collects are those of the assets
\* installed afresh in the current call and of no asset whose version file was
\* there already; a uri that fails is reported and the uris after it are still
\* visited; with skipDependencies set install is not called recursively.
C38_InstallCompletes == (<>(call.pc = "done")) /\ [](InstallSteps)

\* A recursive install over a cycle has found the version file of an asset
\* with dependencies, left them alone, reported a failure earlier and is done.
C38_Witness ==
    /\ call.function = "install" /\ call.pc = "done" /\ call.recursive
    /\ call.reported # {}
    /\ \E k \in 1..Len(call.outcomes) :
         /\ call.outcomes[k] = "exists"
         /\ call.graph[parseKapetaUri(call.uris[k]).name] # <<>>
         /\ call.allDependencies = <<>>
    /\ call.graph.b = <<"a">>

\* The YAML handler is chosen whatever the directory holds.
ForcedYAML ==
    call.baseKind = "core/block-type-executable" /\ call.assetKind # call.baseKind

\* C39: getArtifactHandler returns the first of Docker, NPM, Maven, YAML that
\* supports the directory, which is never null because YAML supports every
\* directory; for an asset whose base kind is core/block-type-executable and
\* whose own kind is another one it returns the YAML handler whatever the
\* directory contains.
C39_FirstSupportedHandler ==
    (call.function = "getArtifactHandler" /\ call.pc = "returned") =>
        /\ call.handler \in {"DockerHandler", "NPMHandler", "MavenHandler", "YAMLHandler"}
        /\ ForcedYAML => call.handler = "YAMLHandler"
        /\ ~ForcedYAML =>
             /\ call.handler = "DockerHandler" <=> "Dockerfile" \in call.directory
             /\ call.handler = "NPMHandler" <=>
                    /\ "Dockerfile" \notin call.directory
                    /\ "package.json" \in call.directory
             /\ call.handler = "MavenHandler" <=>
                    /\ {"Dockerfile", "package.json"} \cap call.directory = {}
                    /\ "pom.xml" \in call.directory
             /\ call.handler = "YAMLHandler" <=>
                    {"Dockerfile", "package.json", "pom.xml"} \cap call.directory = {}

\* The YAML handler was returned for a directory with a Dockerfile and a
\* package.json.
C39_Witness ==
    /\ call.function = "getArtifactHandler" /\ call.pc = "returned"
    /\ ForcedYAML
    /\ {"Dockerfile", "package.json"} \subseteq call.directory
    /\ call.handler = "YAMLHandler"

====
